---- MODULE Spec2Model ----
(***************************************************************************)
(* A model of pkgtrim (src/pkgtrim.go, src/systems.go): one invocation of  *)
(* Pkgtrim on a package catalog, an intent file and a command line.        *)
(*                                                                         *)
(* Package ids are the positions of the packages in the name-sorted list   *)
(* pkgs, 0..n-1 as in the source.  deps[i] and rdeps[i] are sequences of   *)
(* ids in the order the source builds them.  The working arrays visited,   *)
(* shared, toporder and unique are the ones Pkgtrim allocates once and     *)
(* reuses across its queries.                                              *)
(***************************************************************************)
EXTENDS Integers, Sequences, FiniteSets, TLC

VARIABLES
    pkgs,           \* the catalog: id -> [Name, Size, Deps], sorted by Name
    foundPackages,  \* the globs parsed from the trimfile
    args,           \* flagset.Args(): the package arguments
    flagRemove,     \* -remove
    flagTrace,      \* -trace
    deps,           \* direct dependencies of a package (swapped while walking backwards)
    rdeps,          \* direct reverse dependencies of a package
    visited,        \* marker for traverse
    shared,         \* marker for determining the unique size
    toporder,       \* the order built by traverse
    unique,         \* no-args mode: the unique size computed for each package
    seed,           \* seed mode: the ids of the arguments
    iter,           \* no-args mode: the loop index of the per-package loop
    report,         \* what the query has written: the lists, sizes and lines
    toremove,       \* the candidate list handed to remove
    cmd,            \* what remove did: kept list, command line, -dryrun, whether it ran
    src,            \* -trace: id of the first argument
    dst,            \* -trace: id of the second argument
    path,           \* -trace: the path findpaths is building, dst first
    stack,          \* -trace: the activation records of findpaths
    paths,          \* -trace: the paths written so far
    ret,            \* the value the last computeUnique call returned
    err,            \* the error Pkgtrim returns ("" for nil)
    errarg,         \* the argument the error names ("" for none)
    osargs,         \* the command line: the flags given and the package arguments
    rootfs,         \* the file system: package database, trimfiles, what commands print
    system,         \* the package system detected
    flagInstall,    \* -install
    flagGraph,      \* -graph
    flagTrimfile,   \* -f
    cfgstack,       \* parseconfig: its activations, each the content and the line it is at
    pc              \* where the invocation is

vars == <<pkgs, foundPackages, args, flagRemove, flagTrace, deps, rdeps,
          visited, shared, toporder, unique, seed, iter, report, toremove, cmd,
          src, dst, path, stack, paths, ret, err, errarg, osargs, rootfs, system,
          flagInstall, flagGraph, flagTrimfile, cfgstack, pc>>

\* What the start of Pkgtrim sets and its queries leave alone.
boot == <<osargs, rootfs, system, flagInstall, flagGraph, flagTrimfile, cfgstack>>

(***************************************************************************)
(* Bounds of the model.                                                    *)
(***************************************************************************)
\* The most dependency edges a catalog holds.
MaxEdges == 3
\* The most package arguments of a seed query.
MaxSeeds == 2
\* The most package arguments of a -remove query.
MaxRemoveSeeds == 1
\* The deepest findpaths recursion the model follows; deeper, the goroutine
\* stack is taken to overflow.
MaxStack == 5
\* The most dependency edges of a catalog queried with arguments that may
\* not be installed.
MaxArgEdges == 2
\* The most package arguments of such a query.
MaxArgs == 2
\* The longest glob of a trimfile whose globs are spelled out.
MaxGlobLen == 3
\* The longest name matched against spelled out globs.
MaxNameLen == 2

(***************************************************************************)
(* The universe of names.  Strings are atoms for TLC, so Chars spells out  *)
(* the characters of every name and glob the model uses.                   *)
(***************************************************************************)
\* The installed packages, in the order slices.SortFunc leaves them.
PkgNames == <<"a", "ab", "b", "ba">>

\* A name that is not installed.
Uninstalled == "zz"

\* The characters of a name or glob.
Chars(s) ==
    CASE s = "a" -> <<"a">>
      [] s = "ab" -> <<"a", "b">>
      [] s = "b" -> <<"b">>
      [] s = "ba" -> <<"b", "a">>
      [] s = "b*" -> <<"b", "*">>
      [] s = "zz" -> <<"z", "z">>
      [] s = "c" -> <<"c">>
      [] s = "v" -> <<"v">>

Ids == 0 .. (Len(PkgNames) - 1)

(***************************************************************************)
(* Sequence helpers standing for Go's slices package.                      *)
(***************************************************************************)
RECURSIVE SortedSeq(_)
\* The ids of S in increasing order (slices.Sort on names: ids follow names).
SortedSeq(S) ==
    IF S = {} THEN <<>>
    ELSE LET m == CHOOSE x \in S : \A y \in S : x <= y
         IN <<m>> \o SortedSeq(S \ {m})

\* slices.Reverse
Reverse(s) == [i \in 1 .. Len(s) |-> s[Len(s) + 1 - i]]

\* slices.Contains
Contains(s, x) == \E i \in 1 .. Len(s) : s[i] = x

Range(s) == {s[i] : i \in 1 .. Len(s)}

RECURSIVE SumSizes(_, _)
\* The sum of pkgs[i].Size over a set of ids.
SumSizes(p, S) ==
    IF S = {} THEN 0
    ELSE LET x == CHOOSE y \in S : TRUE
         IN p[x].Size + SumSizes(p, S \ {x})

(***************************************************************************)
(* The catalog and the graph.                                              *)
(***************************************************************************)
\* Package.Size of the packages: powers of two, so a sum names its summands.
SizeOf(i) == 2 ^ i

\* A catalog with the dependency edges E (dependent, dependency); Deps is
\* sorted and has no duplicates (slices.Sort and slices.Compact in Packages).
Catalog(E) ==
    [i \in Ids |->
        LET ds == SortedSeq({j \in Ids : <<i, j>> \in E})
        IN [Name |-> PkgNames[i + 1],
            Size |-> SizeOf(i),
            Deps |-> [k \in 1 .. Len(ds) |-> PkgNames[ds[k] + 1]]]]

\* The dependency graphs of the catalogs: cycles and self-dependencies included.
Graphs == {E \in SUBSET (Ids \X Ids) : Cardinality(E) <= MaxEdges}

n == Cardinality(DOMAIN pkgs)

\* exists of "id, exists := pkgids[name]"
Installed(p, name) == \E i \in DOMAIN p : p[i].Name = name

\* pkgids[name]; a missing key reads as the zero value
pkgids(p, name) ==
    IF Installed(p, name) THEN CHOOSE i \in DOMAIN p : p[i].Name = name ELSE 0

\* deps after the loop at "Compute deps and rdeps"
BuildDeps(p) ==
    [i \in DOMAIN p |-> [j \in 1 .. Len(p[i].Deps) |-> pkgids(p, p[i].Deps[j])]]

\* the loop that fills rdeps never entered
AppendRdepsNone(p, r, i, j) == r

RECURSIVE AppendRdeps(_, _, _, _)
\* rdeps after packages i.. have appended themselves to their dependencies
AppendRdeps(p, r, i, j) ==
    IF i \notin DOMAIN p THEN r
    ELSE IF j > Len(p[i].Deps) THEN AppendRdeps(p, r, i + 1, 1)
    ELSE LET d == pkgids(p, p[i].Deps[j])
         IN AppendRdeps(p, [r EXCEPT ![d] = Append(@, i)], i, j + 1)

BuildRdeps(p) == AppendRdeps(p, [i \in DOMAIN p |-> <<>>], 0, 1)

(***************************************************************************)
(* The intent predicate.  makeRE writes one regular expression for all the *)
(* globs, ^(e1|e2|...)$; the model keeps the alternatives e1, e2, ... as a  *)
(* set of character sequences (their order is the order of a Go map and    *)
(* decides no match) and matches a name against each over its whole        *)
(* length.  Strings are sequences of characters here.                      *)
(***************************************************************************)
\* The characters regexp.QuoteMeta escapes.
Special == {"\\", ".", "+", "*", "?", "(", ")", "|", "[", "]", "{", "}", "^", "$"}

RECURSIVE Split(_)
\* strings.Split(glob, "*"): the parts between the stars
Split(g) ==
    IF g = <<>> THEN << <<>> >>
    ELSE LET r == Split(Tail(g))
         IN IF Head(g) = "*" THEN << <<>> >> \o r
            ELSE << <<Head(g)>> \o r[1] >> \o Tail(r)

RECURSIVE QuoteMetaNone(_)
\* a QuoteMeta that escapes nothing
QuoteMetaNone(part) ==
    IF part = <<>> THEN <<>> ELSE <<Head(part)>> \o QuoteMetaNone(Tail(part))

RECURSIVE QuoteMeta(_)
\* regexp.QuoteMeta: a backslash before every special character
QuoteMeta(part) ==
    IF part = <<>> THEN <<>>
    ELSE (IF Head(part) \in Special THEN <<"\\", Head(part)>> ELSE <<Head(part)>>)
            \o QuoteMeta(Tail(part))

RECURSIVE Join(_, _)
\* strings.Join
Join(parts, sep) ==
    IF Len(parts) = 0 THEN <<>>
    ELSE IF Len(parts) = 1 THEN parts[1]
    ELSE parts[1] \o sep \o Join(Tail(parts), sep)

\* makeRE(globs...): the alternatives of the expression; without globs the
\* expression is ^()$, its one alternative empty
makeRE(globs) ==
    IF globs = {} THEN {<<>>}
    ELSE {Join([i \in 1 .. Len(Split(g)) |-> QuoteMeta(Split(g)[i])], <<".", "*">>) :
             g \in globs}

RECURSIVE Match(_, _)
\* Whether the expression e matches all of s.  e is what makeRE can write:
\* characters, escaped characters, "." (any character but a newline) and
\* a "*" behind any of these.
Match(e, s) ==
    IF e = <<>> THEN s = <<>>
    ELSE LET esc == Head(e) = "\\"
             c == IF esc THEN e[2] ELSE e[1]
             rest == SubSeq(e, IF esc THEN 3 ELSE 2, Len(e))
             Is(x) == IF ~esc /\ c = "." THEN x # "\n" ELSE x = c
         IN IF rest # <<>> /\ Head(rest) = "*"
            THEN \E k \in 0 .. Len(s) :
                    /\ \A i \in 1 .. k : Is(s[i])
                    /\ Match(Tail(rest), SubSeq(s, k + 1, Len(s)))
            ELSE s # <<>> /\ Is(Head(s)) /\ Match(rest, Tail(s))

\* (*regexp.Regexp).MatchString of the anchored expression
MatchString(re, s) == \E e \in re : Match(e, s)

\* intentionalRE.MatchString(name), intentionalRE being makeRE(globs...)
intentionalRE(globs, name) ==
    MatchString(makeRE({Chars(g) : g \in globs}), Chars(name))

(***************************************************************************)
(* traverse and computeUnique.  A walk state is [visited, toporder].       *)
(***************************************************************************)
RECURSIVE traverse(_, _, _)
RECURSIVE traverseDeps(_, _, _, _)

\* traverse with its loop over deps[u] starting one element late
traverseOffByOne(w, d, u) ==
    IF w.visited[u] THEN w
    ELSE LET w1 == [w EXCEPT !.visited[u] = TRUE]
             w2 == traverseDeps(w1, d, d[u], 2)
         IN [w2 EXCEPT !.toporder = Append(@, u)]

\* traverse appending u before it visits deps[u]
traverseAppendFirst(w, d, u) ==
    IF w.visited[u] THEN w
    ELSE traverseDeps([w EXCEPT !.visited[u] = TRUE, !.toporder = Append(@, u)],
                      d, d[u], 1)

\* traverse(u) on the adjacency d
traverse(w, d, u) ==
    IF w.visited[u] THEN w
    ELSE LET w1 == [w EXCEPT !.visited[u] = TRUE]
             w2 == traverseDeps(w1, d, d[u], 1)
         IN [w2 EXCEPT !.toporder = Append(@, u)]

\* the loop "for _, dep := range deps[u]" from position k on
traverseDeps(w, d, ds, k) ==
    IF k > Len(ds) THEN w
    ELSE traverseDeps(traverse(w, d, ds[k]), d, ds, k + 1)

\* the loop over a list of ids never entered
traverseAllNone(w, d, ids, k) == w

RECURSIVE traverseAll(_, _, _, _)
\* traverse called on each id of a list in turn
traverseAll(w, d, ids, k) ==
    IF k > Len(ids) THEN w
    ELSE traverseAll(traverse(w, d, ids[k]), d, ids, k + 1)

RECURSIVE uniqueLoopAlwaysAdd(_, _, _, _, _, _, _)
\* the loop of computeUnique adding the size of shared packages too
uniqueLoopAlwaysAdd(u, p, r, vis, order, sd, k) ==
    IF k > Len(order) THEN u
    ELSE LET i == order[k]
         IN IF Contains(sd, i)
            THEN uniqueLoopAlwaysAdd([u EXCEPT !.uniqueSize = @ + p[i].Size],
                                     p, r, vis, order, sd, k + 1)
            ELSE LET hit == \E x \in 1 .. Len(r[i]) :
                                u.shared[r[i][x]] \/ ~vis[r[i][x]]
                     sh == IF hit THEN [u.shared EXCEPT ![i] = TRUE] ELSE u.shared
                 IN uniqueLoopAlwaysAdd([shared |-> sh,
                                         uniqueSize |-> u.uniqueSize + p[i].Size],
                                        p, r, vis, order, sd, k + 1)

RECURSIVE uniqueLoopOutsideOnly(_, _, _, _, _, _, _)
\* the loop of computeUnique looking only for reverse dependencies outside
\* the visited packages
uniqueLoopOutsideOnly(u, p, r, vis, order, sd, k) ==
    IF k > Len(order) THEN u
    ELSE LET i == order[k]
         IN IF Contains(sd, i)
            THEN uniqueLoopOutsideOnly([u EXCEPT !.uniqueSize = @ + p[i].Size],
                                       p, r, vis, order, sd, k + 1)
            ELSE LET hit == \E x \in 1 .. Len(r[i]) : ~vis[r[i][x]]
                     sh == IF hit THEN [u.shared EXCEPT ![i] = TRUE] ELSE u.shared
                     sz == IF sh[i] THEN u.uniqueSize ELSE u.uniqueSize + p[i].Size
                 IN uniqueLoopOutsideOnly([shared |-> sh, uniqueSize |-> sz],
                                          p, r, vis, order, sd, k + 1)

RECURSIVE uniqueLoop(_, _, _, _, _, _, _)
\* the loop of computeUnique over the reversed toporder from position k on,
\* u being [shared, uniqueSize]
uniqueLoop(u, p, r, vis, order, sd, k) ==
    IF k > Len(order) THEN u
    ELSE LET i == order[k]
         IN IF Contains(sd, i)
            THEN uniqueLoop([u EXCEPT !.uniqueSize = @ + p[i].Size],
                            p, r, vis, order, sd, k + 1)
            ELSE LET hit == \E x \in 1 .. Len(r[i]) :
                                u.shared[r[i][x]] \/ ~vis[r[i][x]]
                     sh == IF hit THEN [u.shared EXCEPT ![i] = TRUE] ELSE u.shared
                     sz == IF sh[i] THEN u.uniqueSize ELSE u.uniqueSize + p[i].Size
                 IN uniqueLoop([shared |-> sh, uniqueSize |-> sz],
                               p, r, vis, order, sd, k + 1)

\* computeUnique without the exemption of the seeds
computeUniqueNoSeeds(p, r, vis, sh, order, sd) ==
    LET rev == Reverse(order)
    IN [toporder |-> rev] @@
       uniqueLoop([shared |-> sh, uniqueSize |-> 0], p, r, vis, rev, <<>>, 1)

\* computeUnique without the reversal of toporder
computeUniqueNoReverse(p, r, vis, sh, order, sd) ==
    [toporder |-> order] @@
    uniqueLoop([shared |-> sh, uniqueSize |-> 0], p, r, vis, order, sd, 1)

\* computeUnique(seed...): [shared, uniqueSize, toporder], toporder being
\* left reversed
computeUnique(p, r, vis, sh, order, sd) ==
    LET rev == Reverse(order)
    IN [toporder |-> rev] @@
       uniqueLoop([shared |-> sh, uniqueSize |-> 0], p, r, vis, rev, sd, 1)

(***************************************************************************)
(* The state Pkgtrim has built when it reaches its queries: flags parsed,  *)
(* packages loaded and sorted, trimfile parsed, deps and rdeps computed,   *)
(* the working arrays allocated.                                           *)
(***************************************************************************)
\* Nothing written yet.
NoReport ==
    [sharedsize |-> 0, uniquesize |-> 0, sharedpkgs |-> <<>>, uniquepkgs |-> <<>>,
     intentionalpkgs |-> <<>>, unintentionalpkgs |-> <<>>, cnt |-> 0, lines |-> <<>>,
     nothing |-> FALSE, digraph |-> FALSE, marked |-> <<>>, edges |-> <<>>,
     ignored |-> <<>>, nothingnew |-> FALSE]

\* defaultTrimfile, and another path
DefaultTrimfile == "/home/user/.pkgtrim"
OtherTrimfile == "/etc/pkgtrim"
Paths == {DefaultTrimfile, OtherTrimfile}

\* No file at the path.
Absent == [n |-> "absent", k |-> 0]

\* A file system of which only the pacman database was read.
NoFS == [marker |-> "archlinux", status |-> <<>>, files |-> [f \in Paths |-> Absent]]

\* remove has not run yet.
NoCmd ==
    [tokeep |-> <<>>, argv |-> <<>>, printed |-> FALSE, dryrun |-> FALSE,
     executed |-> FALSE, started |-> 0]

\* Pkgtrim at its queries, the flags as given.
SetupAction(catalog, globs, a, install, remove, trace, graph) ==
    /\ osargs = [install |-> install, remove |-> remove, trace |-> trace,
                 graph |-> graph, f |-> "", args |-> a]
    /\ rootfs = NoFS
    /\ system = "archlinux"
    /\ flagInstall = install
    /\ flagGraph = graph
    /\ flagTrimfile = DefaultTrimfile
    /\ cfgstack = <<>>
    /\ errarg = ""
    /\ pkgs = catalog
    /\ foundPackages = globs
    /\ args = a
    /\ flagRemove = remove
    /\ flagTrace = trace
    /\ deps = BuildDeps(catalog)
    /\ rdeps = BuildRdeps(catalog)
    /\ visited = [i \in Ids |-> FALSE]
    /\ shared = [i \in Ids |-> FALSE]
    /\ toporder = <<>>
    /\ unique = [i \in Ids |-> 0]
    /\ seed = <<>>
    /\ iter = 0
    /\ report = NoReport
    /\ toremove = <<>>
    /\ cmd = NoCmd
    /\ src = 0
    /\ dst = 0
    /\ path = <<>>
    /\ stack = <<>>
    /\ paths = <<>>
    /\ ret = 0
    /\ err = ""
    /\ pc = "start"

\* Pkgtrim at its queries without -install.
SetupFlags(catalog, globs, a, remove, trace, graph) ==
    SetupAction(catalog, globs, a, FALSE, remove, trace, graph)

\* Pkgtrim at its queries without -graph.
Setup(catalog, globs, a, remove, trace) ==
    SetupFlags(catalog, globs, a, remove, trace, FALSE)

\* The argument lists of at most k installed package names: no name twice,
\* but for the lists that are one name given twice.
ArgLists(k) ==
    {a \in UNION {[1 .. m -> Range(PkgNames)] : m \in 1 .. k} :
        \/ \A x, y \in 1 .. Len(a) : a[x] = a[y] => x = y
        \/ Len(a) = 2 /\ a[1] = a[2]}

(***************************************************************************)
(* The start of Pkgtrim: the flags, the package system and its packages,   *)
(* the trimfile, the graph.  The file systems of the model are Debian      *)
(* ones: var/lib/dpkg/status is a sequence of stanzas, a stanza a sequence *)
(* of fields in the order of the file.                                     *)
(***************************************************************************)
\* The depth beyond which parseconfig gives up.
MaxDepth == 10

\* The strings of the model in the order of Go's string comparison.
NameOrder == <<"a", "ab", "b", "b*", "ba", "c", "v", "zz">>

\* slices.Sorted of a set of strings
SortedNames(S) ==
    LET In(x) == x \in S
    IN SelectSeq(NameOrder, In)

\* tonumber(*flagInstall) + tonumber(*flagRemove) + tonumber(*flagTrace)
actions(o) ==
    (IF o.install THEN 1 ELSE 0) + (IF o.remove THEN 1 ELSE 0)
        + (IF o.trace THEN 1 ELSE 0)

\* Define and parse the flags; at most one action is allowed.
ParseFlags ==
    /\ pc = "main"
    /\ flagInstall' = osargs.install
    /\ flagRemove' = osargs.remove
    /\ flagTrace' = osargs.trace
    /\ flagGraph' = osargs.graph
    /\ flagTrimfile' = IF osargs.f = "" THEN DefaultTrimfile ELSE osargs.f
    /\ args' = osargs.args
    /\ IF actions(osargs) >= 2
       THEN err' = "only one action allowed" /\ pc' = "done"
       ELSE err' = "" /\ pc' = "flags"
    /\ UNCHANGED <<osargs, rootfs, system, cfgstack, errarg>>
    /\ UNCHANGED <<pkgs, foundPackages, deps, rdeps,
                   visited, shared, toporder, unique, seed, iter, report, toremove,
                   cmd, src, dst, path, stack, paths, ret>>

\* strings.HasPrefix(value, "install") of a Status value
HasPrefixInstall(value) == value \in {"install ok installed", "install ok unpacked"}

\* One line of the status file: st is [cur, curdepends, pkgs, depends,
\* provider].
debianLine(st, f) ==
    CASE f.key = "Package" -> [st EXCEPT !.cur.Name = f.value]
      [] f.key = "Installed-Size" -> [st EXCEPT !.cur.Size = f.value * 1024]
      [] f.key = "Status" ->
            IF HasPrefixInstall(f.value) THEN st ELSE [st EXCEPT !.cur.Name = ""]
      [] f.key = "Provides" ->
            IF st.cur.Name = "" THEN st
            ELSE [st EXCEPT !.provider = [p \in Range(f.value) |-> st.cur.Name] @@ @]
      [] f.key = "Depends" -> [st EXCEPT !.curdepends = f.value]

\* The empty line behind a stanza: a package with a name is kept and
\* provides itself.
debianBlank(st) ==
    LET kept == IF st.cur.Name = "" THEN st
                ELSE [st EXCEPT !.pkgs = Append(@, st.cur),
                                !.depends = Append(@, st.curdepends),
                                !.provider = (st.cur.Name :> st.cur.Name) @@ @]
    IN [kept EXCEPT !.cur = [Name |-> "", Size |-> 0], !.curdepends = <<>>]

RECURSIVE debianScan(_, _, _, _)
\* The loop over the lines of the status file from field k of stanza s on.
debianScan(st, status, s, k) ==
    IF s > Len(status) THEN st
    ELSE IF k > Len(status[s]) THEN debianScan(debianBlank(st), status, s + 1, 1)
    ELSE debianScan(debianLine(st, status[s][k]), status, s, k + 1)

\* debian.Packages: [err, pkgs]; every dependency is resolved through the
\* provider map, and one without a provider is an error.
debianPackages(status) ==
    LET st == debianScan([cur |-> [Name |-> "", Size |-> 0], curdepends |-> <<>>,
                          pkgs |-> <<>>, depends |-> <<>>, provider |-> <<>>],
                         status, 1, 1)
    IN IF \E i \in 1 .. Len(st.pkgs) :
              \E k \in 1 .. Len(st.depends[i]) : st.depends[i][k] \notin DOMAIN st.provider
       THEN [err |-> "load packages", pkgs |-> <<>>]
       ELSE [err |-> "",
             pkgs |-> [i \in 1 .. Len(st.pkgs) |->
                          [Name |-> st.pkgs[i].Name,
                           Size |-> st.pkgs[i].Size,
                           Deps |-> SortedNames({st.provider[st.depends[i][k]] :
                                                    k \in 1 .. Len(st.depends[i])})]]]

\* NewPackageSystem, system.Packages and the sort by name.
LoadPackages ==
    /\ pc = "flags"
    /\ IF rootfs.marker # "debian"
       THEN /\ err' = "detect package system"
            /\ pc' = "done"
            /\ UNCHANGED <<system, pkgs>>
       ELSE \E r \in {debianPackages(rootfs.status)} :
            /\ system' = "debian"
            /\ err' = r.err
            /\ pc' = IF r.err = "" THEN "packages" ELSE "done"
            /\ pkgs' = LET names == SortedNames({r.pkgs[i].Name : i \in 1 .. Len(r.pkgs)})
                       IN [i \in 0 .. (Len(names) - 1) |->
                              r.pkgs[CHOOSE x \in 1 .. Len(r.pkgs) :
                                         r.pkgs[x].Name = names[i + 1]]]
    /\ UNCHANGED <<osargs, rootfs, flagInstall, flagGraph, flagTrimfile, cfgstack, errarg>>
    /\ UNCHANGED <<foundPackages, args, flagRemove, flagTrace, deps, rdeps,
                   visited, shared, toporder, unique, seed, iter, report, toremove,
                   cmd, src, dst, path, stack, paths, ret>>

\* A line "key: value" of the status file.
Field(key, value) == [key |-> key, value |-> value]

\* A line of names and globs, comment stripped.
Names(s) == [cmd |-> FALSE, names |-> s, out |-> Absent]

\* A line "!command" whose command prints the content out.
Command(out) == [cmd |-> TRUE, names |-> <<>>, out |-> out]

\* The lines of a trimfile or of what a command prints: a plain list; a
\* list with names that are not installed; a file whose command prints the
\* file itself; a command that exits with an error; and a command that
\* prints a command ... that prints a plain list, k commands deep.
Content(c) ==
    CASE c.n = "absent" -> <<>>
      [] c.n = "plain" -> <<Names(<<"a">>), Names(<<"b*">>)>>
      [] c.n = "install" -> <<Names(<<"zz", "a">>), Names(<<"b*", "c">>)>>
      [] c.n = "self" -> <<Names(<<"a">>), Command([n |-> "self", k |-> 0])>>
      [] c.n = "fail" -> <<Names(<<"a">>), Command([n |-> "exit 1", k |-> 0])>>
      [] c.n = "nest" ->
            IF c.k = 0 THEN <<Names(<<"a">>)>>
            ELSE <<Command([n |-> "nest", k |-> c.k - 1]), Names(<<"b*">>)>>

\* a trimfile that cannot be read being an error at every path
openFailsAnywhere(fs, p) == fs.files[p] = Absent

\* fs.ReadFile fails and *flagTrimfile != defaultTrimfile
openFails(fs, p) == fs.files[p] = Absent /\ p # DefaultTrimfile

\* fs.ReadFile of the trimfile; a file that cannot be read is an error
\* unless the path is the default one.  Then parseconfig is called at
\* depth 0.
ReadTrimfile ==
    /\ pc = "packages"
    /\ IF openFails(rootfs, flagTrimfile)
       THEN /\ err' = "open trimfile"
            /\ pc' = "done"
            /\ UNCHANGED cfgstack
       ELSE /\ cfgstack' = <<[cfg |-> Content(rootfs.files[flagTrimfile]), line |-> 1]>>
            /\ pc' = "parseconfig"
            /\ UNCHANGED err
    /\ UNCHANGED <<osargs, rootfs, system, flagInstall, flagGraph, flagTrimfile, errarg>>
    /\ UNCHANGED <<pkgs, foundPackages, args, flagRemove, flagTrace, deps, rdeps,
                   visited, shared, toporder, unique, seed, iter, report, toremove,
                   cmd, src, dst, path, stack, paths, ret>>

\* The running activation of parseconfig; its depth is the number of
\* activations below it.
Parsing == cfgstack[Len(cfgstack)]

\* the test at the head of parseconfig failing one level early
tooDeepEarly(depth) == depth >= MaxDepth

\* the test at the head of parseconfig
tooDeep(depth) == depth > MaxDepth

\* A line of names: they are added to found.
ParseconfigNames ==
    /\ pc = "parseconfig"
    /\ Parsing.line <= Len(Parsing.cfg)
    /\ ~Parsing.cfg[Parsing.line].cmd
    /\ foundPackages' = foundPackages \cup Range(Parsing.cfg[Parsing.line].names)
    /\ cfgstack' = [cfgstack EXCEPT ![Len(cfgstack)].line = @ + 1]
    /\ UNCHANGED <<osargs, rootfs, system, flagInstall, flagGraph, flagTrimfile, errarg>>
    /\ UNCHANGED <<pkgs, args, flagRemove, flagTrace, deps, rdeps,
                   visited, shared, toporder, unique, seed, iter, report, toremove,
                   cmd, src, dst, path, stack, paths, ret, err, pc>>

\* A line "!command": the command is run; if it fails, or if its output
\* would be parsed too deep, the error goes up through every activation to
\* Pkgtrim, else its output is parsed one level deeper.
ParseconfigCommand ==
    /\ pc = "parseconfig"
    /\ Parsing.line <= Len(Parsing.cfg)
    /\ Parsing.cfg[Parsing.line].cmd
    /\ IF Parsing.cfg[Parsing.line].out.n = "exit 1"
       THEN /\ err' = "execute line"
            /\ cfgstack' = <<>>
            /\ pc' = "done"
       ELSE IF tooDeep(Len(cfgstack))
       THEN /\ err' = "too many nested commands"
            /\ cfgstack' = <<>>
            /\ pc' = "done"
       ELSE /\ cfgstack' = Append(cfgstack,
                                  [cfg |-> Content(Parsing.cfg[Parsing.line].out),
                                   line |-> 1])
            /\ UNCHANGED <<err, pc>>
    /\ UNCHANGED <<osargs, rootfs, system, flagInstall, flagGraph, flagTrimfile, errarg>>
    /\ UNCHANGED <<pkgs, foundPackages, args, flagRemove, flagTrace, deps, rdeps,
                   visited, shared, toporder, unique, seed, iter, report, toremove,
                   cmd, src, dst, path, stack, paths, ret>>

\* The lines are done: parseconfig returns nil, to the activation that
\* called it, which goes on with its next line, or to Pkgtrim.
ParseconfigReturn ==
    /\ pc = "parseconfig"
    /\ Parsing.line > Len(Parsing.cfg)
    /\ IF Len(cfgstack) = 1
       THEN cfgstack' = <<>> /\ pc' = "config"
       ELSE /\ cfgstack' = [SubSeq(cfgstack, 1, Len(cfgstack) - 1)
                               EXCEPT ![Len(cfgstack) - 1].line = @ + 1]
            /\ UNCHANGED pc
    /\ UNCHANGED <<osargs, rootfs, system, flagInstall, flagGraph, flagTrimfile, errarg>>
    /\ UNCHANGED <<pkgs, foundPackages, args, flagRemove, flagTrace, deps, rdeps,
                   visited, shared, toporder, unique, seed, iter, report, toremove,
                   cmd, src, dst, path, stack, paths, ret, err>>

\* intentionalRE is made, the arrays are allocated, deps and rdeps are
\* computed.
BuildGraph ==
    /\ pc = "config"
    /\ deps' = BuildDeps(pkgs)
    /\ rdeps' = BuildRdeps(pkgs)
    /\ visited' = [i \in DOMAIN pkgs |-> FALSE]
    /\ shared' = [i \in DOMAIN pkgs |-> FALSE]
    /\ unique' = [i \in DOMAIN pkgs |-> 0]
    /\ toporder' = <<>>
    /\ pc' = "start"
    /\ UNCHANGED <<boot, errarg>>
    /\ UNCHANGED <<pkgs, foundPackages, args, flagRemove, flagTrace,
                   seed, iter, report, toremove,
                   cmd, src, dst, path, stack, paths, ret, err>>

(***************************************************************************)
(* Seed mode: pkgtrim [-remove] pkg...                                     *)
(***************************************************************************)
RECURSIVE seedLoopUnchecked(_, _, _, _, _)
\* the loop over flagset.Args() without its test of exists: a name that is
\* not installed reads as id 0
seedLoopUnchecked(w, p, d, a, k) ==
    IF k > Len(a) THEN [w |-> w, seed |-> <<>>, err |-> "", arg |-> ""]
    ELSE LET id == pkgids(p, a[k])
             rest == seedLoopUnchecked(traverse(w, d, id), p, d, a, k + 1)
         IN [rest EXCEPT !.seed = <<id>> \o @]

RECURSIVE seedLoop(_, _, _, _, _)
\* the loop over flagset.Args() that fills seed: [w, seed, err, arg], arg
\* being the argument that is not installed
seedLoop(w, p, d, a, k) ==
    IF k > Len(a) THEN [w |-> w, seed |-> <<>>, err |-> "", arg |-> ""]
    ELSE IF ~Installed(p, a[k])
         THEN [w |-> w, seed |-> <<>>, err |-> "not installed", arg |-> a[k]]
         ELSE LET id == pkgids(p, a[k])
                  rest == seedLoop(traverse(w, d, id), p, d, a, k + 1)
              IN [rest EXCEPT !.seed = <<id>> \o @]

\* Look up the arguments and traverse from each.
SeedTraverse ==
    /\ pc = "start"
    /\ ~flagInstall /\ ~flagGraph /\ ~flagTrace
    /\ Len(args) > 0
    /\ \E r \in {seedLoop([visited |-> visited, toporder |-> toporder],
                          pkgs, deps, args, 1)} :
          /\ visited' = r.w.visited
          /\ toporder' = r.w.toporder
          /\ err' = r.err
          /\ errarg' = r.arg
          /\ seed' = IF r.err = "" THEN r.seed ELSE seed
          /\ pc' = IF r.err = "" THEN "seed_traversed" ELSE "done"
    /\ UNCHANGED boot
    /\ UNCHANGED <<pkgs, foundPackages, args, flagRemove, flagTrace,
                   deps, rdeps, shared, unique, iter, report, toremove, cmd,
                   src, dst, path, stack, paths, ret>>

\* computeUnique(seed...)
SeedComputeUnique ==
    /\ pc = "seed_traversed"
    /\ \E u \in {computeUnique(pkgs, rdeps, visited, shared, toporder, seed)} :
          /\ shared' = u.shared
          /\ toporder' = u.toporder
          /\ ret' = u.uniqueSize
    /\ pc' = "seed_unique"
    /\ UNCHANGED <<boot, errarg>>
    /\ UNCHANGED <<pkgs, foundPackages, args, flagRemove, flagTrace,
                   deps, rdeps, visited, unique, seed, iter, report, toremove, cmd,
                   src, dst, path, stack, paths, err>>

\* The names of the ids of S in the order of pkgs.
NamesOf(p, S) == [k \in 1 .. Cardinality(S) |-> p[SortedSeq(S)[k]].Name]

\* Split the closure into sharedpkgs and uniquepkgs and clear the marks.
SeedClassify ==
    /\ pc = "seed_unique"
    /\ LET sh == {i \in Ids : shared[i]}
           un == {i \in Ids : ~shared[i] /\ visited[i]}
       IN report' = [report EXCEPT
                        !.sharedsize = SumSizes(pkgs, sh),
                        !.sharedpkgs = NamesOf(pkgs, sh),
                        !.uniquesize = SumSizes(pkgs, un),
                        !.uniquepkgs = NamesOf(pkgs, un)]
    /\ shared' = [i \in Ids |-> FALSE]
    /\ visited' = [i \in Ids |-> FALSE]
    /\ pc' = "seed_classified"
    /\ UNCHANGED <<boot, errarg>>
    /\ UNCHANGED <<pkgs, foundPackages, args, flagRemove, flagTrace,
                   deps, rdeps, toporder, unique, seed, iter, toremove, cmd,
                   src, dst, path, stack, paths, ret, err>>

\* deps and rdeps change places, the order buffer is emptied, and
\* traverse runs from the seeds: it walks backwards.
SeedBackward ==
    /\ pc = "seed_classified"
    /\ deps' = rdeps
    /\ rdeps' = deps
    /\ \E w \in {traverseAll([visited |-> visited, toporder |-> <<>>], rdeps, seed, 1)} :
          /\ visited' = w.visited
          /\ toporder' = w.toporder
    /\ pc' = "seed_backward"
    /\ UNCHANGED <<boot, errarg>>
    /\ UNCHANGED <<pkgs, foundPackages, args, flagRemove, flagTrace,
                   shared, unique, seed, iter, report, toremove, cmd,
                   src, dst, path, stack, paths, ret, err>>

\* deps and rdeps change places again, then the top level packages met
\* are listed.
SeedTopLevel ==
    /\ pc = "seed_backward"
    /\ deps' = rdeps
    /\ rdeps' = deps
    /\ LET top == {i \in Ids : visited[i] /\ Len(deps[i]) = 0}
           int == {i \in top : intentionalRE(foundPackages, pkgs[i].Name)}
       IN report' = [report EXCEPT
                        !.intentionalpkgs = NamesOf(pkgs, int),
                        !.unintentionalpkgs = NamesOf(pkgs, top \ int)]
    /\ toporder' = <<>>
    /\ toremove' = IF flagRemove THEN report.uniquepkgs ELSE toremove
    /\ pc' = IF flagRemove THEN "remove" ELSE "done"
    /\ UNCHANGED <<boot, errarg>>
    /\ UNCHANGED <<pkgs, foundPackages, args, flagRemove, flagTrace,
                   visited, shared, unique, seed, iter, cmd,
                   src, dst, path, stack, paths, ret, err>>

(***************************************************************************)
(* No-args mode: pkgtrim [-remove]                                         *)
(***************************************************************************)
\* intentionalRE.MatchString of the name of package i
Intentional(i) == intentionalRE(foundPackages, pkgs[i].Name)

\* One round of the per-package loop: a top level unintentional package
\* gets its closure and unique size computed, and the arrays are reset.
NoArgsIter ==
    /\ pc \in {"start", "noargs_loop"}
    /\ ~flagInstall /\ ~flagGraph /\ ~flagTrace
    /\ Len(args) = 0
    /\ iter < n
    /\ IF Len(rdeps[iter]) > 0 \/ Intentional(iter)
       THEN UNCHANGED <<visited, shared, toporder, unique, report, ret>>
       ELSE \E w \in {traverse([visited |-> visited, toporder |-> toporder], deps, iter)} :
            \E u \in {computeUnique(pkgs, rdeps, w.visited, shared, w.toporder, <<iter>>)} :
               /\ unique' = [unique EXCEPT ![iter] = u.uniqueSize]
               /\ ret' = u.uniqueSize
               /\ report' = [report EXCEPT !.cnt = @ + 1]
               /\ visited' = [j \in Ids |-> IF j \in Range(u.toporder) THEN FALSE
                                            ELSE w.visited[j]]
               /\ shared' = [j \in Ids |-> IF j \in Range(u.toporder) THEN FALSE
                                           ELSE u.shared[j]]
               /\ toporder' = <<>>
    /\ iter' = iter + 1
    /\ pc' = "noargs_loop"
    /\ UNCHANGED <<boot, errarg>>
    /\ UNCHANGED <<pkgs, foundPackages, args, flagRemove, flagTrace, deps, rdeps,
                   seed, toremove, cmd, src, dst, path, stack, paths, err>>

RECURSIVE InsertByKey(_, _, _)
\* s with x put behind the last element whose key is not greater
InsertByKey(s, x, key) ==
    IF s = <<>> THEN <<x>>
    ELSE IF key[s[Len(s)]] <= key[x] THEN Append(s, x)
         ELSE Append(InsertByKey(SubSeq(s, 1, Len(s) - 1), x, key), s[Len(s)])

\* a sort that leaves the order as it is
SortByKeyNone(s, key) == s

RECURSIVE SortByKey(_, _)
\* slices.SortFunc by cmp.Compare of the keys (an insertion sort at this length)
SortByKey(s, key) ==
    IF s = <<>> THEN <<>>
    ELSE InsertByKey(SortByKey(SubSeq(s, 1, Len(s) - 1), key), s[Len(s)], key)

\* After the loop: the message, or the lines in the order of the unique sizes.
NoArgsReport ==
    /\ pc \in {"start", "noargs_loop"}
    /\ ~flagInstall /\ ~flagGraph /\ ~flagTrace
    /\ Len(args) = 0
    /\ iter = n
    /\ IF report.cnt = 0 /\ ~flagRemove
       THEN /\ report' = [report EXCEPT !.nothing = TRUE]
            /\ pc' = "done"
       ELSE LET sizeorder == SortByKey(SortedSeq(Ids), unique)
                Listed(id) == ~(Len(rdeps[id]) > 0 \/ Intentional(id))
                ids == SelectSeq(sizeorder, Listed)
            IN /\ report' = [report EXCEPT !.lines =
                                [k \in 1 .. Len(ids) |->
                                    [name |-> pkgs[ids[k]].Name, size |-> unique[ids[k]]]]]
               /\ pc' = IF flagRemove THEN "noargs_remove" ELSE "done"
    /\ UNCHANGED <<boot, errarg>>
    /\ UNCHANGED <<pkgs, foundPackages, args, flagRemove, flagTrace, deps, rdeps,
                   visited, shared, toporder, unique, seed, iter, toremove, cmd,
                   src, dst, path, stack, paths, ret, err>>

\* -remove without arguments: the closure of all top level unintentional
\* packages and its unshared members, sorted.
NoArgsRemove ==
    /\ pc = "noargs_remove"
    /\ LET Top(id) == Len(rdeps[id]) = 0 /\ ~Intentional(id)
       IN \E w \in {traverseAll([visited |-> visited, toporder |-> toporder], deps,
                                SelectSeq(SortedSeq(Ids), Top), 1)} :
          \E u \in {computeUnique(pkgs, rdeps, w.visited, shared, w.toporder, <<>>)} :
             /\ visited' = w.visited
             /\ shared' = u.shared
             /\ toporder' = u.toporder
             /\ ret' = u.uniqueSize
             /\ toremove' = NamesOf(pkgs, {i \in Range(u.toporder) : ~u.shared[i]})
    /\ pc' = "remove"
    /\ UNCHANGED <<boot, errarg>>
    /\ UNCHANGED <<pkgs, foundPackages, args, flagRemove, flagTrace, deps, rdeps,
                   unique, seed, iter, report, cmd, src, dst, path, stack, paths, err>>

(***************************************************************************)
(* remove: keep what the intentional candidates need, remove the rest.     *)
(***************************************************************************)
\* system.Remove: archlinux.Remove or debian.Remove
SystemRemove(names) ==
    IF system = "debian" THEN <<"sudo", "apt", "remove">> \o names
    ELSE <<"sudo", "pacman", "-R">> \o names

\* The ids of the candidates that match the intent, in their order.
intentionalIds(p, globs, cand) ==
    LET IsIntentional(name) == intentionalRE(globs, name)
        names == SelectSeq(cand, IsIntentional)
    IN [k \in 1 .. Len(names) |-> pkgids(p, names[k])]

\* the walk of remove that stops behind the first intentional candidate
keepWalkFirstOnly(p, d, globs, cand) ==
    LET ids == intentionalIds(p, globs, cand)
    IN traverseAll([visited |-> [i \in DOMAIN p |-> FALSE], toporder |-> <<>>], d,
                   IF ids = <<>> THEN <<>> ELSE <<ids[1]>>, 1)

\* the walk of remove starting from every intentional package
keepWalkEvery(p, d, globs, cand) ==
    traverseAll([visited |-> [i \in DOMAIN p |-> FALSE], toporder |-> <<>>], d,
                intentionalIds(p, globs, [k \in 1 .. Len(SortedSeq(DOMAIN p)) |->
                                             p[SortedSeq(DOMAIN p)[k]].Name]), 1)

\* the walk of remove on the arrays as it finds them
keepWalkUncleared(p, d, globs, cand) ==
    traverseAll([visited |-> visited, toporder |-> toporder], d,
                intentionalIds(p, globs, cand), 1)

\* The start of remove: the arrays are cleared, then traverse runs from
\* every candidate that matches the intent.
keepWalk(p, d, globs, cand) ==
    traverseAll([visited |-> [i \in DOMAIN p |-> FALSE], toporder |-> <<>>], d,
                intentionalIds(p, globs, cand), 1)

\* the end of remove without its check for an empty list
removeOutcomeUnchecked(rest, dryrun) ==
    [err |-> "", argv |-> SystemRemove(rest), printed |-> TRUE, run |-> ~dryrun]

\* the end of remove starting the command whatever the list
removeOutcomeEager(rest, dryrun) ==
    [err |-> IF Len(rest) = 0 THEN "nothing to remove" ELSE "",
     argv |-> SystemRemove(rest), printed |-> Len(rest) # 0, run |-> ~dryrun]

\* The end of remove: the error for an empty list, else the command line,
\* written and, unless -dryrun, run.
removeOutcome(rest, dryrun) ==
    IF Len(rest) = 0
    THEN [err |-> "nothing to remove", argv |-> <<>>, printed |-> FALSE, run |-> FALSE]
    ELSE [err |-> "", argv |-> SystemRemove(rest), printed |-> TRUE, run |-> ~dryrun]

\* remove(toremove) under either value of -dryrun, up to the point where
\* it returns or starts the command.
Remove ==
    /\ pc = "remove"
    /\ \E dryrun \in BOOLEAN :
       \E w \in {keepWalk(pkgs, deps, foundPackages, toremove)} :
          LET Kept(name) == w.visited[pkgids(pkgs, name)]
              Dropped(name) == ~Kept(name)
              out == removeOutcome(SelectSeq(toremove, Dropped), dryrun)
          IN /\ visited' = w.visited
             /\ toporder' = w.toporder
             /\ toremove' = SelectSeq(toremove, Dropped)
             /\ cmd' = [tokeep |-> SelectSeq(toremove, Kept), argv |-> out.argv,
                        printed |-> out.printed, dryrun |-> dryrun,
                        executed |-> FALSE, started |-> 0]
             /\ err' = out.err
             /\ pc' = IF out.run THEN "run" ELSE "done"
    /\ UNCHANGED <<boot, errarg>>
    /\ UNCHANGED <<pkgs, foundPackages, args, flagRemove, flagTrace, deps, rdeps,
                   shared, unique, seed, iter, report, src, dst, path, stack, paths, ret>>

(***************************************************************************)
(* -install                                                                *)
(***************************************************************************)
\* system.Install: archlinux.Install or debian.Install
SystemInstall(names) ==
    IF system = "debian" THEN <<"sudo", "apt", "install">> \o names
    ELSE <<"sudo", "pacman", "-S">> \o names

\* strings.IndexByte(pkg, '*') != -1
HasStar(name) == "*" \in Range(Chars(name))

\* the end of -install writing nothing under -dryrun
installOutcomeSilent(toinstall, dryrun) ==
    IF Len(toinstall) = 0
    THEN [nothingnew |-> TRUE, argv |-> <<>>, printed |-> FALSE, run |-> FALSE]
    ELSE [nothingnew |-> FALSE, argv |-> IF dryrun THEN <<>> ELSE SystemInstall(toinstall),
          printed |-> ~dryrun, run |-> ~dryrun]

\* The end of -install: the message for an empty list, else the command
\* line, written and, unless -dryrun, run.
installOutcome(toinstall, dryrun) ==
    IF Len(toinstall) = 0
    THEN [nothingnew |-> TRUE, argv |-> <<>>, printed |-> FALSE, run |-> FALSE]
    ELSE [nothingnew |-> FALSE, argv |-> SystemInstall(toinstall), printed |-> TRUE,
          run |-> ~dryrun]

\* -install under either value of -dryrun, up to the point where it returns
\* or starts the command: the names of the trimfile that are not installed,
\* globs set aside.
Install ==
    /\ pc = "start"
    /\ flagInstall
    /\ \E dryrun \in BOOLEAN :
       LET missing == SelectSeq(SortedNames(foundPackages),
                                LAMBDA pkg : ~Installed(pkgs, pkg))
           toinstall == SelectSeq(missing, LAMBDA pkg : ~HasStar(pkg))
           out == installOutcome(toinstall, dryrun)
       IN /\ report' = [report EXCEPT !.ignored = SelectSeq(missing, HasStar),
                                      !.nothingnew = out.nothingnew]
          /\ cmd' = [cmd EXCEPT !.argv = out.argv, !.printed = out.printed,
                                !.dryrun = dryrun]
          /\ pc' = IF out.run THEN "run" ELSE "done"
    /\ UNCHANGED <<boot, errarg>>
    /\ UNCHANGED <<pkgs, foundPackages, args, flagRemove, flagTrace, deps, rdeps,
                   visited, shared, toporder, unique, seed, iter, toremove,
                   src, dst, path, stack, paths, ret, err>>

\* cmd.Run() of the command line written: the command runs and succeeds
\* or fails.
RunCommand ==
    /\ pc = "run"
    /\ cmd' = [cmd EXCEPT !.executed = TRUE, !.started = @ + 1]
    /\ \/ err' = ""
       \/ err' = IF flagInstall THEN "install packages" ELSE "remove selected packages"
    /\ pc' = "done"
    /\ UNCHANGED <<boot, errarg>>
    /\ UNCHANGED <<pkgs, foundPackages, args, flagRemove, flagTrace, deps, rdeps,
                   visited, shared, toporder, unique, seed, iter, report, toremove,
                   src, dst, path, stack, paths, ret>>

(***************************************************************************)
(* -graph pkg...                                                           *)
(***************************************************************************)
RECURSIVE graphLoop(_, _, _, _)
\* the loop over flagset.Args() that looks each argument up and traverses
\* from it: [w, err, arg], arg being the argument that is not found
graphLoop(w, p, d, a) ==
    IF a = <<>> THEN [w |-> w, err |-> "", arg |-> ""]
    ELSE IF ~Installed(p, Head(a)) THEN [w |-> w, err |-> "not found", arg |-> Head(a)]
    ELSE graphLoop(traverse(w, d, pkgids(p, Head(a))), p, d, Tail(a))

\* the line of an edge met walking forward: package i and its dependency j
forwardLine(p, i, j) == <<p[i].Name, p[j].Name>>

\* the line of an edge met walking backward written like a forward one
backwardLineUnflipped(p, i, j) == <<p[i].Name, p[j].Name>>

\* the line of an edge met walking backward: package i and j that depends
\* on it
backwardLine(p, i, j) == <<p[j].Name, p[i].Name>>

RECURSIVE graphLines(_, _, _, _, _)
\* the lines of the loop "for i := range n" from package i on: for every
\* visited package one line for each entry of d[i]
graphLines(p, d, vis, i, back) ==
    IF i \notin DOMAIN p THEN <<>>
    ELSE (IF vis[i]
          THEN [k \in 1 .. Len(d[i]) |->
                   IF back THEN backwardLine(p, i, d[i][k])
                   ELSE forwardLine(p, i, d[i][k])]
          ELSE <<>>) \o graphLines(p, d, vis, i + 1, back)

\* -graph: the arguments are looked up and traversed from, the forward
\* edges written and the marks cleared, deps and rdeps swapped, the
\* arguments traversed from again and the backward edges written.
Graph ==
    /\ pc = "start"
    /\ ~flagInstall /\ flagGraph
    /\ IF Len(args) = 0
       THEN /\ err' = "-graph requires some arguments"
            /\ errarg' = ""
            /\ UNCHANGED <<deps, rdeps, visited, toporder, report>>
       ELSE \E f \in {graphLoop([visited |-> visited, toporder |-> toporder],
                                 pkgs, deps, args)} :
            IF f.err # ""
            THEN /\ err' = f.err
                 /\ errarg' = f.arg
                 /\ visited' = f.w.visited
                 /\ toporder' = f.w.toporder
                 /\ UNCHANGED <<deps, rdeps, report>>
            ELSE \E b \in {traverseAll([visited |-> [i \in Ids |->
                                                       IF f.w.visited[i] THEN FALSE
                                                       ELSE f.w.visited[i]],
                                        toporder |-> <<>>], rdeps,
                                       [k \in 1 .. Len(args) |-> pkgids(pkgs, args[k])],
                                       1)} :
                 /\ err' = ""
                 /\ errarg' = ""
                 /\ report' = [report EXCEPT
                                  !.digraph = TRUE,
                                  !.marked = args,
                                  !.edges = graphLines(pkgs, deps, f.w.visited, 0, FALSE)
                                               \o graphLines(pkgs, rdeps, b.visited, 0, TRUE)]
                 /\ deps' = rdeps
                 /\ rdeps' = deps
                 /\ visited' = b.visited
                 /\ toporder' = b.toporder
    /\ pc' = "done"
    /\ UNCHANGED boot
    /\ UNCHANGED <<pkgs, foundPackages, args, flagRemove, flagTrace,
                   shared, unique, seed, iter, toremove, cmd,
                   src, dst, path, stack, paths, ret>>

(***************************************************************************)
(* -trace src dst                                                          *)
(***************************************************************************)
\* Check the arguments, traverse from src, write the header and call
\* findpaths(dst).
TraceStart ==
    /\ pc = "start"
    /\ ~flagInstall /\ ~flagGraph /\ flagTrace
    /\ IF Len(args) # 2
       THEN /\ err' = "-trace requires exactly 2 arguments"
            /\ errarg' = ""
            /\ pc' = "done"
            /\ UNCHANGED <<visited, toporder, report, src, dst, path, stack>>
       ELSE IF ~Installed(pkgs, args[1]) \/ ~Installed(pkgs, args[2])
       THEN /\ err' = "not found"
            /\ errarg' = IF ~Installed(pkgs, args[1]) THEN args[1] ELSE args[2]
            /\ pc' = "done"
            /\ src' = pkgids(pkgs, args[1])
            /\ dst' = pkgids(pkgs, args[2])
            /\ UNCHANGED <<visited, toporder, report, path, stack>>
       ELSE \E w \in {traverse([visited |-> visited, toporder |-> toporder], deps,
                               pkgids(pkgs, args[1]))} :
            /\ src' = pkgids(pkgs, args[1])
            /\ dst' = pkgids(pkgs, args[2])
            /\ visited' = w.visited
            /\ toporder' = w.toporder
            /\ IF ~w.visited[pkgids(pkgs, args[2])]
               THEN /\ err' = "not a dependency"
                    /\ errarg' = args[2]
                    /\ pc' = "done"
                    /\ UNCHANGED <<report, path, stack>>
               ELSE /\ err' = ""
                    /\ errarg' = ""
                    /\ report' = [report EXCEPT !.digraph = TRUE]
                    /\ path' = <<args[2]>>
                    /\ stack' = <<[pkg |-> pkgids(pkgs, args[2]), k |-> 1]>>
                    /\ pc' = "findpaths"
    /\ UNCHANGED boot
    /\ UNCHANGED <<pkgs, foundPackages, args, flagRemove, flagTrace, deps, rdeps,
                   shared, unique, seed, iter, toremove, cmd, paths, ret>>

\* The running activation of findpaths.
Frame == stack[Len(stack)]

\* findpaths returning without the caller dropping the name it appended
ReturnKeepsName ==
    IF Len(stack) = 1
    THEN /\ stack' = <<>>
         /\ path' = path
         /\ pc' = "done"
    ELSE /\ stack' = [SubSeq(stack, 1, Len(stack) - 1)
                         EXCEPT ![Len(stack) - 1].k = @ + 1]
         /\ path' = path
         /\ pc' = "findpaths"

\* findpaths returns: the caller drops the name it appended and moves on to
\* its next reverse dependency; the outermost call returns to Pkgtrim.
Return ==
    IF Len(stack) = 1
    THEN /\ stack' = <<>>
         /\ path' = path
         /\ pc' = "done"
    ELSE /\ stack' = [SubSeq(stack, 1, Len(stack) - 1)
                         EXCEPT ![Len(stack) - 1].k = @ + 1]
         /\ path' = SubSeq(path, 1, Len(path) - 1)
         /\ pc' = "findpaths"

\* pkg == src: write the path, src first.
FindpathsEmit ==
    /\ pc = "findpaths"
    /\ Frame.pkg = src
    /\ paths' = Append(paths, Reverse(path))
    /\ Return
    /\ UNCHANGED <<boot, errarg>>
    /\ UNCHANGED <<pkgs, foundPackages, args, flagRemove, flagTrace, deps, rdeps,
                   visited, shared, toporder, unique, seed, iter, report, toremove,
                   cmd, src, dst, ret, err>>

\* The next reverse dependency is visited: append its name and recurse.
FindpathsEnter ==
    /\ pc = "findpaths"
    /\ Frame.pkg # src
    /\ Frame.k <= Len(rdeps[Frame.pkg])
    /\ visited[rdeps[Frame.pkg][Frame.k]]
    /\ Len(stack) < MaxStack
    /\ path' = Append(path, pkgs[rdeps[Frame.pkg][Frame.k]].Name)
    /\ stack' = Append(stack, [pkg |-> rdeps[Frame.pkg][Frame.k], k |-> 1])
    /\ UNCHANGED <<boot, errarg>>
    /\ UNCHANGED <<pkgs, foundPackages, args, flagRemove, flagTrace, deps, rdeps,
                   visited, shared, toporder, unique, seed, iter, report, toremove,
                   cmd, src, dst, paths, ret, err, pc>>

\* The recursion is deeper than the model follows: the stack overflows.
FindpathsOverflow ==
    /\ pc = "findpaths"
    /\ Frame.pkg # src
    /\ Frame.k <= Len(rdeps[Frame.pkg])
    /\ visited[rdeps[Frame.pkg][Frame.k]]
    /\ Len(stack) >= MaxStack
    /\ pc' = "overflow"
    /\ UNCHANGED <<boot, errarg>>
    /\ UNCHANGED <<pkgs, foundPackages, args, flagRemove, flagTrace, deps, rdeps,
                   visited, shared, toporder, unique, seed, iter, report, toremove,
                   cmd, src, dst, path, stack, paths, ret, err>>

\* The next reverse dependency is not visited: skip it.
FindpathsSkip ==
    /\ pc = "findpaths"
    /\ Frame.pkg # src
    /\ Frame.k <= Len(rdeps[Frame.pkg])
    /\ ~visited[rdeps[Frame.pkg][Frame.k]]
    /\ stack' = [stack EXCEPT ![Len(stack)].k = @ + 1]
    /\ UNCHANGED <<boot, errarg>>
    /\ UNCHANGED <<pkgs, foundPackages, args, flagRemove, flagTrace, deps, rdeps,
                   visited, shared, toporder, unique, seed, iter, report, toremove,
                   cmd, src, dst, path, paths, ret, err, pc>>

\* All reverse dependencies are done: return.
FindpathsReturn ==
    /\ pc = "findpaths"
    /\ Frame.pkg # src
    /\ Frame.k > Len(rdeps[Frame.pkg])
    /\ Return
    /\ UNCHANGED <<boot, errarg>>
    /\ UNCHANGED <<pkgs, foundPackages, args, flagRemove, flagTrace, deps, rdeps,
                   visited, shared, toporder, unique, seed, iter, report, toremove,
                   cmd, src, dst, paths, ret, err>>

(***************************************************************************)
(* Seed mode with traverse followed call by call: stack holds a frame      *)
(* [pkg, k] for every running call of traverse, k being the place of the   *)
(* loop over deps[pkg]; iter counts the seeds done.                        *)
(***************************************************************************)
\* a call of traverse appending the package even if it is visited
enterAppends(vis, order, u) == Append(order, u)

\* what a call of traverse that returns at once leaves in toporder
enter(vis, order, u) == order

\* The arguments are looked up (all of them are installed here).
WalkStart ==
    /\ pc = "start"
    /\ ~flagInstall /\ ~flagGraph /\ ~flagTrace
    /\ Len(args) > 0
    /\ \A k \in 1 .. Len(args) : Installed(pkgs, args[k])
    /\ seed' = [k \in 1 .. Len(args) |-> pkgids(pkgs, args[k])]
    /\ iter' = 0
    /\ pc' = "walk_forward"
    /\ UNCHANGED <<boot, errarg>>
    /\ UNCHANGED <<pkgs, foundPackages, args, flagRemove, flagTrace, unique, report,
                   toremove, cmd, src, dst, path, paths, err, deps, rdeps, visited, shared, toporder, stack, ret>>

\* traverse(seed[iter]) is called by a loop over the seeds.
WalkCall ==
    /\ pc \in {"walk_forward", "walk_backward"}
    /\ stack = <<>>
    /\ iter < Len(seed)
    /\ LET u == seed[iter + 1]
       IN IF visited[u]
          THEN /\ iter' = iter + 1
               /\ toporder' = enter(visited, toporder, u)
               /\ UNCHANGED <<visited, stack>>
          ELSE /\ visited' = [visited EXCEPT ![u] = TRUE]
               /\ stack' = <<[pkg |-> u, k |-> 1]>>
               /\ UNCHANGED <<iter, toporder>>
    /\ UNCHANGED pc
    /\ UNCHANGED <<boot, errarg>>
    /\ UNCHANGED <<pkgs, foundPackages, args, flagRemove, flagTrace, unique, report,
                   toremove, cmd, src, dst, path, paths, err, deps, rdeps, shared, seed, ret>>

\* The running call goes to its next dependency and calls traverse on it.
WalkDep ==
    /\ pc \in {"walk_forward", "walk_backward"}
    /\ stack # <<>>
    /\ Frame.k <= Len(deps[Frame.pkg])
    /\ LET v == deps[Frame.pkg][Frame.k]
           next == [stack EXCEPT ![Len(stack)].k = @ + 1]
       IN IF visited[v]
          THEN /\ stack' = next
               /\ toporder' = enter(visited, toporder, v)
               /\ UNCHANGED visited
          ELSE /\ visited' = [visited EXCEPT ![v] = TRUE]
               /\ stack' = Append(next, [pkg |-> v, k |-> 1])
               /\ UNCHANGED toporder
    /\ UNCHANGED pc
    /\ UNCHANGED <<boot, errarg>>
    /\ UNCHANGED <<pkgs, foundPackages, args, flagRemove, flagTrace, unique, report,
                   toremove, cmd, src, dst, path, paths, err, deps, rdeps, shared, seed, iter, ret>>

\* The running call is through its dependencies: it appends its package
\* and returns.
WalkReturn ==
    /\ pc \in {"walk_forward", "walk_backward"}
    /\ stack # <<>>
    /\ Frame.k > Len(deps[Frame.pkg])
    /\ toporder' = Append(toporder, Frame.pkg)
    /\ stack' = SubSeq(stack, 1, Len(stack) - 1)
    /\ iter' = IF Len(stack) = 1 THEN iter + 1 ELSE iter
    /\ UNCHANGED pc
    /\ UNCHANGED <<boot, errarg>>
    /\ UNCHANGED <<pkgs, foundPackages, args, flagRemove, flagTrace, unique, report,
                   toremove, cmd, src, dst, path, paths, err, deps, rdeps, visited, shared, seed, ret>>

\* computeUnique(seed...)
WalkUnique ==
    /\ pc = "walk_forward"
    /\ stack = <<>>
    /\ iter = Len(seed)
    /\ \E u \in {computeUnique(pkgs, rdeps, visited, shared, toporder, seed)} :
          /\ shared' = u.shared
          /\ toporder' = u.toporder
          /\ ret' = u.uniqueSize
    /\ pc' = "walk_unique"
    /\ UNCHANGED <<boot, errarg>>
    /\ UNCHANGED <<pkgs, foundPackages, args, flagRemove, flagTrace, unique, report,
                   toremove, cmd, src, dst, path, paths, err, deps, rdeps, visited, seed, iter, stack>>

\* The marks are cleared, deps and rdeps change places and the order
\* buffer is emptied for the walk backwards.
WalkTurn ==
    /\ pc = "walk_unique"
    /\ shared' = [i \in Ids |-> FALSE]
    /\ visited' = [i \in Ids |-> FALSE]
    /\ deps' = rdeps
    /\ rdeps' = deps
    /\ toporder' = <<>>
    /\ iter' = 0
    /\ pc' = "walk_backward"
    /\ UNCHANGED <<boot, errarg>>
    /\ UNCHANGED <<pkgs, foundPackages, args, flagRemove, flagTrace, unique, report,
                   toremove, cmd, src, dst, path, paths, err, seed, stack, ret>>

\* The walk backwards is over: deps and rdeps change places again.
WalkEnd ==
    /\ pc = "walk_backward"
    /\ stack = <<>>
    /\ iter = Len(seed)
    /\ deps' = rdeps
    /\ rdeps' = deps
    /\ toporder' = <<>>
    /\ pc' = "done"
    /\ UNCHANGED <<boot, errarg>>
    /\ UNCHANGED <<pkgs, foundPackages, args, flagRemove, flagTrace, unique, report,
                   toremove, cmd, src, dst, path, paths, err, visited, shared, seed, iter, stack, ret>>

(***************************************************************************)
(* The specifications.                                                     *)
(***************************************************************************)
\* The trimfiles of the -remove runs.
TrimFiles == {{}, {"a"}, {"b*"}, {"a", "b*"}}

\* The argument lists of at most k installed names in the order of pkgs.
SortedArgLists(k) ==
    {NamesOf(Catalog({}), S) : S \in {T \in SUBSET Ids : Cardinality(T) \in 1 .. k}}

InitSeed ==
    \/ \E g \in Graphs, a \in ArgLists(MaxSeeds) :
           Setup(Catalog(g), {}, a, FALSE, FALSE)
    \/ \E g \in Graphs, t \in TrimFiles :
           Setup(Catalog(g), t, <<>>, FALSE, FALSE)

NextSeed ==
    \/ SeedTraverse
    \/ SeedComputeUnique
    \/ SeedClassify
    \/ SeedBackward
    \/ SeedTopLevel
    \/ NoArgsIter
    \/ NoArgsReport

\* Queries: seed mode with an empty trimfile, and the no-args report.
SpecSeed == InitSeed /\ [][NextSeed]_vars

\* The greatest number of edges of a catalog with a cycle.
MaxCycleEdges == 4

\* The catalogs in which some package depends on itself through others.
CycleGraphs ==
    {E \in SUBSET (Ids \X Ids) :
        /\ Cardinality(E) <= MaxCycleEdges
        /\ \E i, j \in Ids : i # j /\ <<i, j>> \in E /\ <<j, i>> \in E}

\* Seed mode with one package on a catalog with a cycle.
InitCycle ==
    \E g \in CycleGraphs, a \in SortedArgLists(1) :
        Setup(Catalog(g), {}, a, FALSE, FALSE)

NextCycle ==
    \/ SeedTraverse
    \/ SeedComputeUnique
    \/ SeedClassify
    \/ SeedBackward
    \/ SeedTopLevel

SpecCycle == InitCycle /\ [][NextCycle]_vars

\* The greatest number of edges of a catalog walked call by call.
MaxWalkEdges == 3

\* The greatest number of seeds of a walk followed call by call.
MaxWalkSeeds == 1

\* Seed mode call by call, on every catalog, loops and cycles included.
InitWalk ==
    \E g \in {E \in SUBSET (Ids \X Ids) : Cardinality(E) <= MaxWalkEdges},
       a \in SortedArgLists(MaxWalkSeeds) :
        Setup(Catalog(g), {}, a, FALSE, FALSE)

NextWalk ==
    \/ WalkStart
    \/ WalkCall
    \/ WalkDep
    \/ WalkReturn
    \/ WalkUnique
    \/ WalkTurn
    \/ WalkEnd

\* Pkgtrim runs on: a step that can be taken is taken.
SpecWalk == InitWalk /\ [][NextWalk]_vars /\ WF_vars(NextWalk)

\* -remove with and without package arguments
InitRemove ==
    \E g \in Graphs, t \in TrimFiles, a \in {<<>>} \cup SortedArgLists(MaxRemoveSeeds) :
        Setup(Catalog(g), t, a, TRUE, FALSE)

NextRemove ==
    \/ SeedTraverse
    \/ SeedComputeUnique
    \/ SeedClassify
    \/ SeedBackward
    \/ SeedTopLevel
    \/ NoArgsIter
    \/ NoArgsReport
    \/ NoArgsRemove
    \/ Remove
    \/ RunCommand

SpecRemove == InitRemove /\ [][NextRemove]_vars

\* -trace with two installed packages
InitTrace ==
    \E g \in Graphs, a \in [1 .. 2 -> Range(PkgNames)] :
        Setup(Catalog(g), {}, a, FALSE, TRUE)

NextTrace ==
    \/ TraceStart
    \/ FindpathsEmit
    \/ FindpathsEnter
    \/ FindpathsOverflow
    \/ FindpathsSkip
    \/ FindpathsReturn

SpecTrace == InitTrace /\ [][NextTrace]_vars

\* -graph with installed packages
InitGraph ==
    \E g \in Graphs, a \in ArgLists(MaxSeeds) :
        SetupFlags(Catalog(g), {}, a, FALSE, FALSE, TRUE)

NextGraph == Graph

SpecGraph == InitGraph /\ [][NextGraph]_vars

\* The argument lists of at most k names, the installed ones in the order
\* of pkgs and at most one that is not installed, at any place.
MixedArgLists(k) ==
    {a \in UNION {[1 .. m -> Range(PkgNames) \cup {Uninstalled}] : m \in 1 .. k} :
        \A x, y \in 1 .. Len(a) :
            x < y => /\ a[x] # a[y]
                     /\ (a[x] # Uninstalled /\ a[y] # Uninstalled) =>
                           pkgids(Catalog({}), a[x]) < pkgids(Catalog({}), a[y])}

\* Queries whose arguments may name a package that is not installed: seed
\* mode with and without -remove, -trace and -graph.
InitArgs ==
    \E g \in {E \in SUBSET (Ids \X Ids) : Cardinality(E) <= MaxArgEdges},
       a \in MixedArgLists(MaxArgs),
       mode \in {"seed", "remove", "trace", "graph"} :
        SetupFlags(Catalog(g), {}, a, mode = "remove", mode = "trace", mode = "graph")

NextArgs ==
    \/ SeedTraverse
    \/ SeedComputeUnique
    \/ SeedClassify
    \/ SeedBackward
    \/ SeedTopLevel
    \/ Remove
    \/ RunCommand
    \/ Graph
    \/ TraceStart
    \/ FindpathsEmit
    \/ FindpathsEnter
    \/ FindpathsOverflow
    \/ FindpathsSkip
    \/ FindpathsReturn

SpecArgs == InitArgs /\ [][NextArgs]_vars

\* The trimfiles of the -install runs.
InstallFiles == {{}, {"a", "b*"}, {"a", "zz"}, {"a", "b*", "c", "zz"}}

\* -remove as above, and -install
InitPlan ==
    \/ InitRemove
    \/ \E t \in InstallFiles :
           SetupAction(Catalog({}), t, <<>>, TRUE, FALSE, FALSE, FALSE)

NextPlan ==
    \/ SeedTraverse
    \/ SeedComputeUnique
    \/ SeedClassify
    \/ SeedBackward
    \/ SeedTopLevel
    \/ NoArgsIter
    \/ NoArgsReport
    \/ NoArgsRemove
    \/ Remove
    \/ Install
    \/ RunCommand

\* The two actions that end in a command line.
SpecPlan == InitPlan /\ [][NextPlan]_vars

\* The stanza of installed package i of catalog E in the status file, with
\* the dependencies extra besides its own and the Provides field provides.
Stanza(i, E, extra, provides) ==
    <<Field("Package", PkgNames[i + 1]),
      Field("Status", "install ok installed"),
      Field("Installed-Size", SizeOf(i)),
      Field("Provides", provides),
      Field("Depends", NamesOf(Catalog({}), {j \in Ids : <<i, j>> \in E}) \o extra)>>

\* The stanza of a package that was removed and has left its configuration
\* files, with its Provides field before or behind its Status field.
Removed(name, provides, first) ==
    IF first
    THEN <<Field("Package", name), Field("Provides", provides),
           Field("Status", "deinstall ok config-files")>>
    ELSE <<Field("Package", name), Field("Status", "deinstall ok config-files"),
           Field("Provides", provides)>>

\* The status files: the four packages with the dependencies E; package b
\* depends on the virtual package v besides (virtual), and v is provided by
\* nobody ("none"), by installed package a ("a"), or by the removed package
\* zz, whose stanza has Provides before Status ("first") or behind it
\* ("last").
StatusFile(E, virtual, by) ==
    (IF by \in {"first", "last"}
     THEN <<Removed(Uninstalled, <<"v">>, by = "first")>> ELSE <<>>)
    \o [s \in 1 .. Len(PkgNames) |->
           Stanza(s - 1, E,
                  IF virtual /\ PkgNames[s] = "b" THEN <<"v">> ELSE <<>>,
                  IF by = "a" /\ PkgNames[s] = "a" THEN <<"v">> ELSE <<>>)]

\* The greatest number of edges of a catalog in a status file.
MaxRunEdges == 1

\* The catalogs of the status files: the small ones, one where -trace
\* skips a reverse dependency, and one where it does not come to an end.
RunGraphs ==
    {E \in SUBSET (Ids \X Ids) : Cardinality(E) <= MaxRunEdges}
        \cup {{<<0, 2>>, <<1, 2>>}, {<<0, 2>>, <<0, 1>>, <<1, 2>>, <<2, 1>>}}

\* The deepest nesting of commands in a trimfile.
MaxNesting == 12

\* What a trimfile may hold.
Contents ==
    {[n |-> x, k |-> 0] : x \in {"absent", "plain", "install", "self", "fail"}}
        \cup {[n |-> "nest", k |-> k] : k \in 0 .. MaxNesting}

\* A Debian file system with the file content at path.
DebianFS(status, p, content) ==
    [marker |-> "debian", status |-> status,
     files |-> [f \in Paths |-> IF f = p THEN content ELSE Absent]]

\* Pkgtrim called with the command line o on the file system fs.
Boot(o, fs) ==
    /\ osargs = o
    /\ rootfs = fs
    /\ system = ""
    /\ flagInstall = FALSE
    /\ flagGraph = FALSE
    /\ flagTrimfile = ""
    /\ cfgstack = <<>>
    /\ errarg = ""
    /\ pkgs = <<>>
    /\ foundPackages = {}
    /\ args = <<>>
    /\ flagRemove = FALSE
    /\ flagTrace = FALSE
    /\ deps = <<>>
    /\ rdeps = <<>>
    /\ visited = <<>>
    /\ shared = <<>>
    /\ toporder = <<>>
    /\ unique = <<>>
    /\ seed = <<>>
    /\ iter = 0
    /\ report = NoReport
    /\ toremove = <<>>
    /\ cmd = NoCmd
    /\ src = 0
    /\ dst = 0
    /\ path = <<>>
    /\ stack = <<>>
    /\ paths = <<>>
    /\ ret = 0
    /\ err = ""
    /\ pc = "main"

\* The path the trimfile is read from under the command line o.
Requested(o) == IF o.f = "" THEN DefaultTrimfile ELSE o.f

\* Invocations without flags but -f and without arguments: every trimfile
\* at every path.
InitParse ==
    \E f \in {""} \cup Paths, c \in Contents :
       LET o == [install |-> FALSE, remove |-> FALSE, trace |-> FALSE,
                 graph |-> FALSE, f |-> f, args |-> <<>>]
       IN Boot(o, DebianFS(StatusFile({}, FALSE, "none"), Requested(o), c))

\* Whole invocations, from the command line on: every trimfile at every
\* path; every status file; every combination of the action flags.
InitRun ==
    \/ InitParse
    \/ \E g \in RunGraphs,
          virtual \in BOOLEAN, by \in {"none", "a", "first", "last"},
          a \in {<<>>, <<"b">>}, graph \in BOOLEAN,
          marker \in {"debian", "none"} :
       LET o == [install |-> FALSE, remove |-> FALSE, trace |-> FALSE,
                 graph |-> graph, f |-> "", args |-> a]
       IN /\ marker = "none" => (g = {} /\ ~virtual /\ by = "none")
          /\ Boot(o, [DebianFS(StatusFile(g, virtual, by), DefaultTrimfile, Absent)
                        EXCEPT !.marker = marker])
    \/ \E g \in RunGraphs,
          o \in [install : BOOLEAN, remove : BOOLEAN, trace : BOOLEAN,
                 graph : BOOLEAN, f : {""},
                 args : {<<>>, <<"a">>, <<"zz">>, <<"a", "b">>}],
          c \in {[n |-> x, k |-> 0] : x \in {"absent", "plain", "install"}} :
       Boot(o, DebianFS(StatusFile(g, FALSE, "none"), DefaultTrimfile, c))

NextRun ==
    \/ ParseFlags
    \/ LoadPackages
    \/ ReadTrimfile
    \/ ParseconfigNames
    \/ ParseconfigCommand
    \/ ParseconfigReturn
    \/ BuildGraph
    \/ Install
    \/ Graph
    \/ TraceStart
    \/ FindpathsEmit
    \/ FindpathsEnter
    \/ FindpathsOverflow
    \/ FindpathsSkip
    \/ FindpathsReturn
    \/ SeedTraverse
    \/ SeedComputeUnique
    \/ SeedClassify
    \/ SeedBackward
    \/ SeedTopLevel
    \/ NoArgsIter
    \/ NoArgsReport
    \/ NoArgsRemove
    \/ Remove
    \/ RunCommand

SpecRun == InitRun /\ [][NextRun]_vars

NextParse ==
    \/ ParseFlags
    \/ LoadPackages
    \/ ReadTrimfile
    \/ ParseconfigNames
    \/ ParseconfigCommand
    \/ ParseconfigReturn
    \/ BuildGraph
    \/ NoArgsIter
    \/ NoArgsReport

\* A step of parseconfig.
Parseconfig == ParseconfigNames \/ ParseconfigCommand \/ ParseconfigReturn

\* parseconfig runs on: its next step, when there is one, is taken.
SpecParse == InitParse /\ [][NextParse]_vars /\ WF_vars(Parseconfig)

\* The strings of 1 to k characters of A.
Strings(A, k) == UNION {[1 .. m -> A] : m \in 1 .. k}

\* The matching of a name against a trimfile of no, one or two globs, names
\* and globs spelled out as sequences of characters.
InitGlob ==
    \E g, h \in Strings({"a", ".", "*"}, MaxGlobLen),
       name \in Strings({"a", "."}, MaxNameLen) :
        \E gs \in {{}, {g, h}} :
            Setup(Catalog({}), gs, <<name>>, FALSE, FALSE)

\* intentionalRE := makeRE(globs...); intentionalRE.MatchString(name)
MatchName ==
    /\ pc = "start"
    /\ ret' = MatchString(makeRE(foundPackages), args[1])
    /\ pc' = "matched"
    /\ UNCHANGED <<boot, errarg>>
    /\ UNCHANGED <<pkgs, foundPackages, args, flagRemove, flagTrace, deps, rdeps,
                   visited, shared, toporder, unique, seed, iter, report, toremove,
                   cmd, src, dst, path, stack, paths, err>>

NextGlob == MatchName

SpecGlob == InitGlob /\ [][NextGlob]_vars

Init == InitSeed \/ InitCycle \/ InitPlan \/ InitTrace \/ InitGraph \/ InitArgs \/ InitRun

Next == NextRun

\* Every invocation the model covers.
Spec == Init /\ [][Next]_vars

(***************************************************************************)
(* What the claims speak of, read off the catalog alone.                   *)
(***************************************************************************)
\* Package i depends directly on package j.
Edge(i, j) == \E k \in 1 .. Len(pkgs[i].Deps) : pkgs[i].Deps[k] = pkgs[j].Name

RECURSIVE Closure(_)
\* The packages reachable from S by zero or more dependency edges.
Closure(S) ==
    LET T == S \cup {j \in Ids : \E i \in S : Edge(i, j)}
    IN IF T = S THEN S ELSE Closure(T)

RECURSIVE ClosureAvoiding(_, _)
\* The packages reachable from S along paths that enter no package of A.
ClosureAvoiding(S, A) ==
    LET T == S \cup {j \in Ids \ A : \E i \in S : Edge(i, j)}
    IN IF T = S THEN S ELSE ClosureAvoiding(T, A)

\* No package reaches itself by one or more dependency edges.
Acyclic == \A i \in Ids : i \notin Closure({j \in Ids : Edge(i, j)})

\* The ids of the package arguments.
SeedIds == {pkgids(pkgs, args[k]) : k \in 1 .. Len(args)}

\* The non-seed members of the closure of A that a package outside the
\* closure reaches along a path holding no package of A.
NeededOutside(A) ==
    {i \in Closure(A) \ A :
        \E o \in Ids \ Closure(A) : i \in ClosureAvoiding({o}, A)}

\* Seed mode has written its shared and unique lists.
Classified ==
    /\ ~flagTrace
    /\ Len(args) > 0
    /\ pc \in {"seed_classified", "seed_backward", "remove", "done"}
    /\ err # "not installed"

\* C1: after the forward traversal from all seeds, started with all marks
\* cleared, the visited packages are exactly the packages reachable from
\* some seed by zero or more dependency edges, the seeds among them.
C1_ClosureTotality ==
    pc = "seed_traversed" =>
        /\ {i \in Ids : visited[i]} = Closure(SeedIds)
        /\ SeedIds \subseteq {i \in Ids : visited[i]}

\* A traversal that reached a package that is no seed, over a dependency
\* cycle, and left a package out.
C1_Witness ==
    /\ pc = "seed_traversed"
    /\ ~Acyclic
    /\ \E i \in Ids \ SeedIds : visited[i]
    /\ \E i \in Ids : ~visited[i]

\* C2: in seed mode the shared list and the unique list are disjoint, their
\* union is the closure of the seeds, and every seed is in the unique list.
C2_SharedUniquePartition ==
    Classified =>
        /\ Range(report.sharedpkgs) \cap Range(report.uniquepkgs) = {}
        /\ Range(report.sharedpkgs) \cup Range(report.uniquepkgs)
              = {pkgs[i].Name : i \in Closure(SeedIds)}
        /\ Range(args) \subseteq Range(report.uniquepkgs)

\* Two seeds, one a dependency of a package outside the closure, and a
\* shared package.
C2_Witness ==
    /\ Classified
    /\ Cardinality(SeedIds) = 2
    /\ \E i \in SeedIds : \E o \in Ids \ Closure(SeedIds) : Edge(o, i)
    /\ report.sharedpkgs # <<>>

\* C3: in seed mode the unique size plus the shared size is the sum of the
\* sizes of the closure, and computeUnique returned the unique size.
C3_SizeAdditivity ==
    Classified =>
        /\ report.uniquesize + report.sharedsize = SumSizes(pkgs, Closure(SeedIds))
        /\ ret = report.uniquesize

\* A closure with both a shared and a unique dependency.
C3_Witness ==
    /\ Classified
    /\ report.sharedsize > 0
    /\ Len(report.uniquepkgs) > Cardinality(SeedIds)

\* C4: on an acyclic catalog a closure member that is no seed is shared if
\* and only if a package outside the closure reaches it along a path that
\* holds no seed, and is unique otherwise; the no-args report gives each
\* package the size of what is unique to it in this sense.
C4_UniqueMeansNotNeededOutside ==
    Acyclic =>
        /\ Classified =>
              /\ Range(report.sharedpkgs) = {pkgs[i].Name : i \in NeededOutside(SeedIds)}
              /\ Range(report.uniquepkgs)
                    = {pkgs[i].Name : i \in Closure(SeedIds) \ NeededOutside(SeedIds)}
        /\ (~flagTrace /\ Len(args) = 0 /\ pc = "noargs_loop" /\ iter = n) =>
              \A i \in Ids :
                  (Len(rdeps[i]) = 0 /\ ~Intentional(i)) =>
                      unique[i] = SumSizes(pkgs, Closure({i}) \ NeededOutside({i}))

\* The catalog a -> ab -> b, ba -> b queried for a: b is shared, a and ab
\* are unique.
C4_Witness ==
    /\ Classified
    /\ \A i, j \in Ids : Edge(i, j) <=> <<i, j>> \in {<<0, 1>>, <<1, 2>>, <<3, 2>>}
    /\ args = <<"a">>
    /\ report.sharedpkgs = <<"b">>
    /\ report.uniquepkgs = <<"a", "ab">>
    /\ report.sharedsize = pkgs[2].Size
    /\ report.uniquesize = pkgs[0].Size + pkgs[1].Size

\* The package names on the command line remove has written.
RemovedNames == Range(SubSeq(cmd.argv, 4, Len(cmd.argv)))

\* The installed packages whose names match the intent.
IntentionalIds == {i \in Ids : Intentional(i)}

\* C5: the list handed to the remove command never holds a name that is
\* forward-reachable from a package whose name matches the intent.
C5_MonotonicProtection ==
    (pc = "done" /\ cmd.printed) =>
        \A i \in Closure(IntentionalIds) : pkgs[i].Name \notin RemovedNames

\* C6: the command line of -remove names no package that matches the
\* intent, and -remove of seeds that are all intentional fails with
\* "nothing to remove".
C6_NoIntentionalRemoved ==
    /\ (pc = "done" /\ cmd.printed) =>
          \A i \in IntentionalIds : pkgs[i].Name \notin RemovedNames
    /\ (pc = "done" /\ flagRemove /\ Len(args) > 0 /\ SeedIds \subseteq IntentionalIds
          /\ \A k \in 1 .. Len(args) : Installed(pkgs, args[k])) =>
          /\ err = "nothing to remove"
          /\ ~cmd.printed
          /\ ~cmd.executed

\* A command line was written although two of the candidates were
\* intentional and were kept.
C6_Witness ==
    /\ pc = "done"
    /\ cmd.printed
    /\ Cardinality({i \in IntentionalIds : pkgs[i].Name \in Range(cmd.tokeep)}) >= 2

\* C7: when the removal list is empty after protection, and so when
\* -remove without arguments finds no unintentional top level package, the
\* invocation returns "nothing to remove" and neither writes nor runs a
\* remove command, with or without -dryrun; otherwise it writes one.
C7_EmptyPlanIsError ==
    (pc = "done" /\ flagRemove /\ err # "not installed") =>
        /\ toremove = <<>> =>
              (err = "nothing to remove" /\ ~cmd.printed /\ ~cmd.executed
                  /\ cmd.argv = <<>>)
        /\ toremove # <<>> => (err # "nothing to remove" /\ cmd.printed)
        /\ (Len(args) = 0 /\ report.cnt = 0) => toremove = <<>>

\* Without -dryrun, every candidate was kept and nothing was run.
C7_Witness ==
    /\ pc = "done"
    /\ ~cmd.dryrun
    /\ cmd.tokeep # <<>>
    /\ toremove = <<>>
    /\ err = "nothing to remove"

\* -trace has ended, by returning or by overflowing its stack.
TraceEnded == flagTrace /\ pc \in {"done", "overflow"}

\* A written path leads from src to dst along dependency edges.
IsTracePath(q) ==
    /\ Len(q) >= 1
    /\ q[1] = pkgs[src].Name
    /\ q[Len(q)] = pkgs[dst].Name
    /\ \A k \in 1 .. Len(q) - 1 : Edge(pkgids(pkgs, q[k]), pkgids(pkgs, q[k + 1]))

\* C8: -trace a b writes at least one path if and only if b is reachable
\* from a, else it fails with "not a dependency" and writes no graph text;
\* every written path leads from a to b along dependency edges.
C8_TraceSymmetry ==
    TraceEnded =>
        /\ Len(paths) >= 1 <=> dst \in Closure({src})
        /\ dst \notin Closure({src}) => (err = "not a dependency" /\ ~report.digraph)
        /\ \A k \in 1 .. Len(paths) : IsTracePath(paths[k])

\* The simple dependency paths from i to j, as sequences of names.
SimplePaths(i, j) ==
    {[k \in 1 .. Len(q) |-> pkgs[q[k]].Name] :
        q \in {r \in UNION {[1 .. m -> Ids] : m \in 1 .. Cardinality(Ids)} :
                  /\ r[1] = i
                  /\ r[Len(r)] = j
                  /\ \A x, y \in 1 .. Len(r) : r[x] = r[y] => x = y
                  /\ \A x \in 1 .. Len(r) - 1 : Edge(r[x], r[x + 1])}}

\* C9: on an acyclic catalog with dst reachable from src the written paths
\* are the simple dependency paths from src to dst, each written once, and
\* the enumeration returns.
C9_TraceCompleteness ==
    (flagTrace /\ Acyclic) =>
        /\ pc # "overflow"
        /\ (pc = "done" /\ dst \in Closure({src})) =>
              /\ Range(paths) = SimplePaths(src, dst)
              /\ Len(paths) = Cardinality(Range(paths))
              /\ src = dst => paths = << <<pkgs[src].Name>> >>

\* An acyclic catalog with two paths from src to dst, both written.
C9_Witness ==
    /\ flagTrace
    /\ pc = "done"
    /\ Acyclic
    /\ Len(paths) = 2
    /\ Len(paths[1]) # Len(paths[2])

\* C10: the path enumeration of -trace ends, on cyclic catalogs too: the
\* recursion of findpaths never gets deeper than the stack allows.
C10_TraceTerminates == pc # "overflow"

RECURSIVE GlobMatch(_, _)
\* The glob g matches all of s: "*" stands for any characters, none
\* included, and every other character for itself.
GlobMatch(g, s) ==
    IF g = <<>> THEN s = <<>>
    ELSE IF Head(g) = "*"
         THEN \E k \in 0 .. Len(s) : GlobMatch(Tail(g), SubSeq(s, k + 1, Len(s)))
         ELSE s # <<>> /\ Head(s) = Head(g) /\ GlobMatch(Tail(g), Tail(s))

\* The name matches one of the declared patterns.
MatchesIntent(name) == \E g \in foundPackages : GlobMatch(Chars(g), Chars(name))

\* The packages nothing depends on and from which a seed is reachable.
TopLevelAncestors ==
    {i \in Ids : (\A j \in Ids : ~Edge(j, i)) /\ Closure({i}) \cap SeedIds # {}}

\* Seed mode has written its top level lists.
TopLevelListed ==
    /\ ~flagInstall /\ ~flagGraph /\ ~flagTrace
    /\ Len(args) > 0
    /\ pc \in {"remove", "run", "done"}
    /\ err # "not installed"

\* C11: in seed mode the intentional and the unintentional top level lists
\* are disjoint, together they hold exactly the packages that nothing
\* depends on and from which a seed is reachable by zero or more
\* dependency edges, and a package is in the intentional list if and only
\* if its name matches the intent.
C11_TopLevelClassification ==
    TopLevelListed =>
        /\ Range(report.intentionalpkgs) \cap Range(report.unintentionalpkgs) = {}
        /\ Range(report.intentionalpkgs) \cup Range(report.unintentionalpkgs)
              = {pkgs[i].Name : i \in TopLevelAncestors}
        /\ \A i \in TopLevelAncestors :
              pkgs[i].Name \in Range(report.intentionalpkgs) <=> MatchesIntent(pkgs[i].Name)

\* Both lists are filled, by packages that are no seeds, and a top level
\* package that reaches no seed is left out.
C11_Witness ==
    /\ TopLevelListed
    /\ Range(report.intentionalpkgs) \ Range(args) # {}
    /\ Range(report.unintentionalpkgs) \ Range(args) # {}
    /\ \E i \in Ids \ TopLevelAncestors : \A j \in Ids : ~Edge(j, i)

\* The unique size a query for the one package i computes on arrays that
\* no earlier query has touched.
SingletonUnique(i) ==
    LET w == traverse([visited |-> [j \in Ids |-> FALSE], toporder |-> <<>>],
                      BuildDeps(pkgs), i)
    IN computeUnique(pkgs, BuildRdeps(pkgs), w.visited, [j \in Ids |-> FALSE],
                     w.toporder, <<i>>).uniqueSize

\* The invocation without package arguments has ended.
NoArgsDone ==
    /\ ~flagInstall /\ ~flagGraph /\ ~flagTrace
    /\ Len(args) = 0
    /\ pc = "done"

\* C12: without package arguments the report has exactly one line for
\* every package that nothing depends on and that does not match the
\* intent, and no other line; the cost on a line is the unique size of the
\* closure of that package alone, and the costs never decrease down the
\* lines.
C12_NoSeedReport ==
    NoArgsDone =>
        /\ {report.lines[k].name : k \in 1 .. Len(report.lines)}
              = {pkgs[i].Name : i \in {j \in Ids : /\ \A x \in Ids : ~Edge(x, j)
                                                   /\ ~MatchesIntent(pkgs[j].Name)}}
        /\ \A k, m \in 1 .. Len(report.lines) :
              report.lines[k].name = report.lines[m].name => k = m
        /\ \A k \in 1 .. Len(report.lines) :
              report.lines[k].size = SingletonUnique(pkgids(pkgs, report.lines[k].name))
        /\ \A k \in 1 .. Len(report.lines) - 1 :
              report.lines[k].size <= report.lines[k + 1].size

\* Two lines that are not in the order of the names, and an intentional
\* top level package without a line.
C12_Witness ==
    /\ NoArgsDone
    /\ Len(report.lines) = 2
    /\ pkgids(pkgs, report.lines[1].name) > pkgids(pkgs, report.lines[2].name)
    /\ \E i \in Ids : (\A x \in Ids : ~Edge(x, i)) /\ MatchesIntent(pkgs[i].Name)

\* C13: a name is intentional if and only if one of the declared patterns
\* matches it over its whole length, "*" standing for any characters, none
\* included, and every other character for itself; with no pattern
\* declared no package is intentional.
C13_IntentGlobMatching ==
    pc = "matched" =>
        /\ ret <=> \E g \in foundPackages : GlobMatch(g, args[1])
        /\ foundPackages = {} => ~ret

\* Of two patterns the one with the star matches a name that begins like
\* it and holds a dot; the same pattern does not match a name that ends
\* like it begins.
C13_Witness ==
    /\ pc = "matched"
    /\ foundPackages = {<<"a", "*">>, <<".">>}
    /\ \/ args[1] = <<"a", ".">> /\ ret
       \/ args[1] = <<".", "a">> /\ ~ret

\* An argument names no installed package.
UnknownArgs == {args[k] : k \in {x \in 1 .. Len(args) : ~Installed(pkgs, args[x])}}

\* Nothing was written and no command was written or run.
NothingDone ==
    /\ report = NoReport
    /\ paths = <<>>
    /\ cmd = NoCmd

\* C14, as stated: in seed mode, -trace mode and -graph mode, if an
\* argument is not the name of an installed package the invocation returns
\* an error that names such an argument, has written no report or graph
\* text and has invoked no install or remove command.
C14_UnknownArgumentAsStated ==
    (~flagInstall /\ UnknownArgs # {}) =>
        /\ NothingDone
        /\ pc \notin {"remove", "run", "findpaths", "overflow"}
        /\ pc = "done" => (err # "" /\ errarg \in UnknownArgs)

\* C14, amended: the same for seed mode, -graph mode and -trace mode with
\* exactly two arguments; -trace with another number of arguments returns
\* the error about the number, which names no argument, and likewise
\* writes nothing and invokes no command.
C14_UnknownArgument ==
    (~flagInstall /\ UnknownArgs # {}) =>
        /\ NothingDone
        /\ pc \notin {"remove", "run", "findpaths", "overflow"}
        /\ pc = "done" =>
              IF flagTrace /\ ~flagGraph /\ Len(args) # 2
              THEN err = "-trace requires exactly 2 arguments" /\ errarg = ""
              ELSE err # "" /\ errarg \in UnknownArgs

\* An invocation whose first argument is installed has ended with the
\* error that names its second one, after traversing from the first.
C14_Witness ==
    /\ pc = "done"
    /\ Len(args) = 2
    /\ Installed(pkgs, args[1])
    /\ errarg = args[2]
    /\ errarg \in UnknownArgs
    /\ \E i \in Ids : visited[i]

\* The packages from which a package of S is reachable.
Ancestors(S) == {i \in Ids : Closure({i}) \cap S # {}}

\* C20: the edge lines -graph writes are exactly the edges u -> v, v a
\* dependency of u, with u in the forward closure of the seeds or v among
\* the seeds and their ancestors, each written dependent -> dependency.
C20_GraphExport ==
    (flagGraph /\ pc = "done" /\ err = "") =>
        /\ report.digraph
        /\ Range(report.edges)
              = {<<pkgs[u].Name, pkgs[v].Name>> :
                    <<u, v>> \in {e \in Ids \X Ids :
                                     /\ Edge(e[1], e[2])
                                     /\ \/ e[1] \in Closure(SeedIds)
                                        \/ e[2] \in Ancestors(SeedIds)}}

\* A graph was written with an edge out of the closure of the seed, an
\* edge into the seed, and without the third edge of the catalog.
C20_Witness ==
    /\ flagGraph /\ pc = "done" /\ err = ""
    /\ Len(args) = 1
    /\ \E u, v \in Ids \ SeedIds :
          /\ <<pkgs[u].Name, args[1]>> \in Range(report.edges)
          /\ <<args[1], pkgs[v].Name>> \in Range(report.edges)
    /\ \E u, v \in Ids : Edge(u, v) /\ <<pkgs[u].Name, pkgs[v].Name>> \notin Range(report.edges)

\* The errors of the install/remove command itself.
CommandErrors == {"install packages", "remove selected packages"}

\* The invocation has returned an error that is not the command's.
PlanningError == pc = "done" /\ err \notin {""} \cup CommandErrors

\* C15: Plan before execute.  The install/remove command is started at
\* most once; the step that starts it is taken from a state where the
\* command line, with a package behind its three leading words, has been
\* written, and leaves the command line, the kept-packages message and
\* the report as they are; and an invocation that has returned a planning
\* error has not started it.
C15_PlanBeforeExecute ==
    /\ [](/\ cmd.started <= 1
          /\ cmd.executed <=> cmd.started = 1
          /\ PlanningError => cmd.started = 0)
    /\ [][cmd'.started # cmd.started =>
             /\ cmd.printed
             /\ Len(cmd.argv) > 3
             /\ cmd'.argv = cmd.argv
             /\ cmd'.tokeep = cmd.tokeep
             /\ report' = report]_vars

\* An invocation has started its command, and it was -install.
C15_Witness == pc = "done" /\ cmd.started = 1 /\ flagInstall /\ osargs.install

\* The candidates remove keeps, read off the catalog: those in the closure
\* of the candidates that match the trimfile.
KeptOf(candidates) ==
    LET ids == {i \in Ids : pkgs[i].Name \in Range(candidates)}
    IN {pkgs[i].Name : i \in ids \cap Closure({j \in ids : MatchesIntent(pkgs[j].Name)})}

\* The names of the trimfile -install asks for: not installed, no glob.
WantedOf(found) ==
    {name \in found : ~Installed(pkgs, name) /\ "*" \notin Range(Chars(name))}

\* C16: Dry run.  What -remove and -install write, the kept-packages
\* message and the command line, is determined by the state before the
\* step that writes it, whatever -dryrun is; and an invocation with -dryrun
\* never starts the command.
C16_DryRun ==
    /\ [](cmd.dryrun => (cmd.started = 0 /\ ~cmd.executed /\ pc # "run"))
    /\ [][pc = "remove" =>
             LET In(name) == name \in KeptOf(toremove)
                 Out(name) == name \notin KeptOf(toremove)
             IN /\ cmd'.tokeep = SelectSeq(toremove, In)
                /\ cmd'.printed = (SelectSeq(toremove, Out) # <<>>)
                /\ cmd'.argv = IF cmd'.printed
                                THEN SystemRemove(SelectSeq(toremove, Out)) ELSE <<>>]_vars
    /\ [][(pc = "start" /\ flagInstall) =>
             /\ cmd'.tokeep = <<>>
             /\ cmd'.printed = (WantedOf(foundPackages) # {})
             /\ cmd'.argv = IF cmd'.printed
                             THEN SystemInstall(SortedNames(WantedOf(foundPackages)))
                             ELSE <<>>]_vars
    /\ [][(pc \in {"remove", "start"} /\ pc' = "run") => ~cmd'.dryrun]_vars
    /\ [][(pc \in {"remove", "start"} /\ pc' = "done" /\ cmd'.printed) => cmd'.dryrun]_vars

\* A -remove with -dryrun has written a kept-packages message and a
\* command line and has returned.
C16_Witness ==
    /\ pc = "done"
    /\ flagRemove
    /\ cmd.dryrun
    /\ cmd.printed
    /\ cmd.tokeep # <<>>
    /\ Len(cmd.argv) > 3
    /\ ~cmd.executed

\* Some package of the catalog lists a dependency that is not in the
\* catalog.
Dangling ==
    \E i \in DOMAIN pkgs :
        \E k \in 1 .. Len(pkgs[i].Deps) : ~Installed(pkgs, pkgs[i].Deps[k])

\* C17: Graph build rejects dangling dependencies.  An invocation whose
\* catalog has a dangling dependency gets no deps and rdeps and no query:
\* it is where the catalog is loaded, at the trimfile, or it has returned
\* an error.
C17_DanglingRejected ==
    (pkgs # <<>> /\ Dangling) =>
        /\ pc \in {"packages", "parseconfig", "config", "done"}
        /\ pc = "done" => err # ""
        /\ deps = <<>>
        /\ rdeps = <<>>
        /\ report = NoReport
        /\ cmd = NoCmd

\* The trimfile of the invocation cannot be read.
Unreadable == rootfs.files[Requested(osargs)] = Absent

\* The invocation has come to its trimfile and has read or failed to read
\* it.
PastTrimfile ==
    /\ pc \notin {"main", "flags", "packages"}
    /\ ~(pc = "done" /\ err \in {"only one action allowed", "detect package system",
                                  "load packages"})

\* Nothing of a query has been computed or written.
NoQuery ==
    /\ deps = <<>>
    /\ rdeps = <<>>
    /\ toporder = <<>>
    /\ seed = <<>>
    /\ report = NoReport
    /\ cmd = NoCmd
    /\ paths = <<>>

\* The invocation fails with 'open trimfile' before any query.
OpenTrimfileError == pc = "done" /\ err = "open trimfile" /\ NoQuery

\* The invocation goes on with no intent.
EmptyIntent == err # "open trimfile" /\ foundPackages = {}

\* C18 as the spec states it: an unreadable trimfile is an error exactly
\* when -f was given.
C18_TrimfileAbsenceAsStated ==
    (PastTrimfile /\ Unreadable) =>
        IF osargs.f # "" THEN OpenTrimfileError ELSE EmptyIntent

\* C18: Intent-file absence.  An unreadable trimfile is an error exactly
\* when its path is not the default location, whether the path was given
\* with -f or not; at the default location the invocation goes on with no
\* intent; and a trimfile that can be read is never an 'open trimfile'
\* error.
C18_TrimfileAbsence ==
    /\ (PastTrimfile /\ Unreadable) =>
          IF Requested(osargs) # DefaultTrimfile THEN OpenTrimfileError ELSE EmptyIntent
    /\ err = "open trimfile" => (Unreadable /\ osargs.f # "")

\* An invocation with -f at another path than the default one has failed
\* to read its trimfile.
C18_Witness ==
    /\ osargs.f = OtherTrimfile
    /\ Unreadable
    /\ OpenTrimfileError

\* What the invocation reads as its trimfile.
Trimfile == rootfs.files[Requested(osargs)]

\* The invocation has come to its trimfile, has read it, and parseconfig
\* has returned.
PastParse ==
    /\ PastTrimfile
    /\ pc # "parseconfig"
    /\ ~(pc = "done" /\ err = "open trimfile")

\* The invocation fails with 'too many nested commands' before any query.
TooManyNested == pc = "done" /\ err = "too many nested commands" /\ NoQuery

\* C19: Bounded intent-file expansion.  parseconfig runs at the depths 0
\* to 10 only.  A trimfile whose commands are nested k deep is parsed, the
\* names at depth k included, if k is at most 10, and else the invocation
\* fails with 'too many nested commands' before any query; so does the
\* invocation whose trimfile holds a command that prints the trimfile
\* itself; and parseconfig always comes to an end.
C19_BoundedExpansion ==
    /\ [](pc = "parseconfig" => Len(cfgstack) \in 1 .. (MaxDepth + 1))
    /\ []((PastParse /\ Trimfile.n = "nest") =>
             IF Trimfile.k <= MaxDepth
             THEN err = "" /\ "a" \in foundPackages
             ELSE TooManyNested)
    /\ []((PastParse /\ Trimfile.n = "self") => TooManyNested)
    /\ [](err = "too many nested commands" =>
             (Trimfile.n = "self" \/ (Trimfile.n = "nest" /\ Trimfile.k > MaxDepth)))
    /\ (pc = "parseconfig" ~> pc \in {"config", "done"})

\* The expansion of a trimfile that prints itself has ended with the
\* error.
C19_Witness == Trimfile.n = "self" /\ TooManyNested

\* Some reverse dependency of package i is outside the visited packages
\* or is marked shared.
SharedByRule(i) ==
    \E x \in 1 .. Len(rdeps[i]) : ~visited[rdeps[i][x]] \/ shared[rdeps[i][x]]

\* C21: Shared-marking rule.  After computeUnique, on every catalog, a
\* visited package that is no seed is marked shared if and only if one of
\* its reverse dependencies is outside the visited packages or is marked
\* shared.
C21_SharedMarkingRule ==
    (pc = "seed_unique") =>
        \A i \in Ids : (visited[i] /\ ~Contains(seed, i)) => (shared[i] <=> SharedByRule(i))

\* C22: Exact protection semantics.  The step of remove turns a candidate
\* list into the kept list, which holds exactly the candidates reachable
\* from a candidate that matches the trimfile, and the removal list, which
\* holds the other candidates, both in the order of the candidate list;
\* the command line names the removal list; intentional packages outside
\* the candidate list have no part in it.
C22_ExactProtection ==
    [][pc = "remove" =>
         LET In(name) == name \in KeptOf(toremove)
             Out(name) == name \notin KeptOf(toremove)
         IN /\ cmd'.tokeep = SelectSeq(toremove, In)
            /\ toremove' = SelectSeq(toremove, Out)
            /\ toremove' # <<>> => SubSeq(cmd'.argv, 4, Len(cmd'.argv)) = toremove'
            /\ \A i \in Ids :
                  (MatchesIntent(pkgs[i].Name) /\ pkgs[i].Name \notin Range(toremove)) =>
                      \A j \in Closure({i}) \ Closure({x \in Ids : In(pkgs[x].Name)}) :
                          pkgs[j].Name \in Range(toremove) =>
                              pkgs[j].Name \in Range(toremove')]_vars

\* remove has kept a candidate and has put on its command line a package
\* that an intentional package outside the candidate list depends on.
C22_Witness ==
    /\ pc \in {"run", "done"}
    /\ flagRemove
    /\ cmd.tokeep # <<>>
    /\ \E i, j \in Ids :
          /\ MatchesIntent(pkgs[i].Name)
          /\ pkgs[i].Name \notin Range(cmd.tokeep) \cup Range(toremove)
          /\ Edge(i, j)
          /\ pkgs[j].Name \in Range(toremove)
          /\ pkgs[j].Name \in Range(cmd.argv)

\* The position of id i in the order buffer.
PosOf(i) == CHOOSE k \in 1 .. Len(toporder) : toporder[k] = i

\* The order buffer holds the visited ids, each once, and nothing else.
OrderHoldsVisited ==
    /\ Range(toporder) = {i \in Ids : visited[i]}
    /\ Len(toporder) = Cardinality(Range(toporder))

\* C23: Dependency-first order.  After the forward traversal from the
\* seeds the order buffer holds every visited id once and no other id,
\* and on an acyclic catalog every id stands behind all ids it depends on,
\* directly or not; after computeUnique has reversed the buffer, every
\* visited reverse dependency of an id stands before it.
C23_DependencyFirstOrder ==
    /\ (pc = "seed_traversed") =>
          /\ OrderHoldsVisited
          /\ Acyclic =>
                \A i \in Range(toporder) :
                    \A j \in Closure({i}) \ {i} :
                        j \in Range(toporder) /\ PosOf(j) < PosOf(i)
    /\ (pc = "seed_unique") =>
          /\ OrderHoldsVisited
          /\ Acyclic =>
                \A i \in Range(toporder) :
                    \A x \in 1 .. Len(rdeps[i]) :
                        visited[rdeps[i][x]] => PosOf(rdeps[i][x]) < PosOf(i)

\* The traversal from two seeds of a catalog where a package is reached
\* along two paths has ended.
C23_Witness ==
    /\ pc = "seed_traversed"
    /\ Acyclic
    /\ Len(seed) = 2
    /\ Len(toporder) = 4
    /\ \E i \in Ids : Len(rdeps[i]) >= 2

\* The marks and the order buffer as allocated.
Clean == [visited |-> [i \in Ids |-> FALSE], toporder |-> <<>>]

\* C24: Closure computation terminates on cycles.  On every catalog,
\* cycles and self-dependencies included, seed mode followed call by call
\* comes to its end; no id is entered into the order buffer twice and no
\* package has two running calls of traverse; and the forward and the
\* backward walk leave what traverse leaves when taken as a whole.
C24_TerminatesOnCycles ==
    /\ [](/\ Len(toporder) = Cardinality(Range(toporder))
          /\ \A x, y \in 1 .. Len(stack) : stack[x].pkg = stack[y].pkg => x = y)
    /\ [](pc = "walk_unique" =>
             LET w == traverseAll(Clean, deps, seed, 1)
             IN visited = w.visited /\ toporder = Reverse(w.toporder))
    /\ []((pc = "walk_backward" /\ stack = <<>> /\ iter = Len(seed)) =>
             LET w == traverseAll(Clean, deps, seed, 1)
             IN visited = w.visited /\ toporder = w.toporder)
    /\ <>(pc = "done")

\* Seed mode has come to its end on a catalog where the first seed is on
\* a cycle and a package depends on itself.
C24_Witness ==
    /\ pc = "done"
    /\ \E i \in Ids : Edge(i, i)
    /\ seed[1] \in Closure({j \in Ids : Edge(seed[1], j) /\ j # seed[1]})

\* j is in rd[i] if and only if i is in d[j].
Symmetric(d, rd) ==
    \A i, j \in Ids : Contains(rd[i], j) <=> Contains(d[j], i)

\* deps holds the dependencies of the catalog and rdeps their reverse.
Original ==
    /\ \A i, j \in Ids : Contains(deps[i], j) <=> Edge(i, j)
    /\ \A i, j \in Ids : Contains(rdeps[i], j) <=> Edge(j, i)

\* deps and rdeps have changed places.
Swapped ==
    /\ \A i, j \in Ids : Contains(rdeps[i], j) <=> Edge(i, j)
    /\ \A i, j \in Ids : Contains(deps[i], j) <=> Edge(j, i)

\* C25: Adjacency symmetry.  Once the graph is built from a catalog all of
\* whose dependencies are in the catalog, j is in rdeps[i] if
\* and only if i is in deps[j], in every state; deps and rdeps are either
\* as built or have changed places; they have changed places behind the
\* backward traversal of seed mode and are as built wherever top level
\* status is tested or a removal plan is computed.
C25_AdjacencySymmetry ==
    (pc \notin {"main", "flags", "packages", "parseconfig", "config"}
         /\ (pc = "done" => deps # <<>>)
         /\ ~Dangling) =>
        /\ Symmetric(deps, rdeps)
        /\ Original \/ Swapped
        /\ pc = "seed_backward" => Swapped
        /\ pc \in {"start", "noargs_loop", "noargs_remove", "remove", "run",
                   "seed_traversed", "seed_unique", "seed_classified"} => Original
        /\ (pc = "done" /\ ~flagGraph) => Original

\* The backward traversal of seed mode has ended on a catalog built from
\* a status file, with deps and rdeps in each other's place and not alike.
C25_Witness ==
    /\ pc = "seed_backward"
    /\ rootfs.status # <<>>
    /\ Swapped
    /\ deps # rdeps

\* No package is marked visited.
NoneVisited == \A i \in Ids : ~visited[i]

\* No package is marked shared.
NoneShared == \A i \in Ids : ~shared[i]

\* The ids of the candidates of remove that match the trimfile.
IntentionalCandidates ==
    {i \in Ids : pkgs[i].Name \in Range(toremove) /\ MatchesIntent(pkgs[i].Name)}

\* C26: Working arrays are clean at every query start.  No mark is set
\* and the order buffer is empty where a query starts: at every round of
\* the per-package loop of no-args mode, at the whole-catalog closure of
\* -remove without arguments, at the seed loop; no shared mark is set
\* where computeUnique starts; no mark is set where the backward
\* traversal of seed mode starts, and that traversal and the protecting
\* traversal of remove leave only what a traversal from cleared marks and
\* an empty buffer leaves.
C26_CleanArrays ==
    /\ [](pc \in {"start", "noargs_loop", "noargs_remove"} =>
             (NoneVisited /\ NoneShared /\ toporder = <<>>))
    /\ [](pc \in {"seed_traversed", "seed_classified"} => NoneShared)
    /\ [](pc = "seed_classified" => NoneVisited)
    /\ [][pc = "seed_classified" =>
             /\ {i \in Ids : visited'[i]} = Ancestors(Range(seed))
             /\ Range(toporder') = Ancestors(Range(seed))
             /\ Len(toporder') = Cardinality(Ancestors(Range(seed)))]_vars
    /\ [][pc = "remove" =>
             /\ {i \in Ids : visited'[i]} = Closure(IntentionalCandidates)
             /\ Range(toporder') = Closure(IntentionalCandidates)
             /\ Len(toporder') = Cardinality(Closure(IntentionalCandidates))]_vars

\* remove entered with marks set and a filled order buffer has kept a
\* candidate and has left another unmarked.
C26_Witness ==
    /\ pc \in {"run", "done"}
    /\ flagRemove
    /\ Len(args) = 0
    /\ cmd.tokeep # <<>>
    /\ \E i \in Ids : ~visited[i] /\ pkgs[i].Name \in Range(toremove)

\* -remove without arguments has made its removal list.
WholeCatalogPlanned ==
    /\ flagRemove
    /\ Len(args) = 0
    /\ pc \in {"run", "done"}

\* The ids of the installed packages that match the trimfile.
AllIntentional == {i \in Ids : MatchesIntent(pkgs[i].Name)}

\* C27: Whole-catalog removal is fully protected.  On an acyclic catalog
\* the removal list and the command line of -remove without arguments
\* hold no package reachable from an installed package that matches the
\* trimfile.
C27_WholeCatalogProtected ==
    (Acyclic /\ WholeCatalogPlanned) =>
        \A j \in Closure(AllIntentional) :
            pkgs[j].Name \notin Range(toremove) \cup Range(cmd.argv)

\* -remove without arguments has written a command line on an acyclic
\* catalog where an unintentional top level package and an intentional
\* package with a reverse dependency share a dependency that is not
\* intentional itself.
C27_Witness ==
    /\ Acyclic
    /\ WholeCatalogPlanned
    /\ cmd.printed
    /\ \E i \in AllIntentional, t \in Ids \ AllIntentional, j \in Ids \ AllIntentional :
          /\ \E x \in Ids : Edge(x, i)
          /\ \A x \in Ids : ~Edge(x, t)
          /\ j \in Closure({i}) \cap Closure({t})

\* C28: Whole-catalog removal breaks nothing that stays.  On an acyclic
\* catalog every package that depends directly on a package of the
\* removal list of -remove without arguments is in the removal list too.
C28_RemovalClosedUnderRdeps ==
    (Acyclic /\ WholeCatalogPlanned) =>
        \A i, j \in Ids :
            (Edge(i, j) /\ pkgs[j].Name \in Range(toremove)) =>
                (pkgs[i].Name \in Range(toremove) /\ pkgs[i].Name \in Range(cmd.argv))

\* -remove without arguments has put a package and one of its
\* dependencies on its command line and has left alone another of its
\* dependencies that a package that stays needs too.
C28_Witness ==
    /\ Acyclic
    /\ WholeCatalogPlanned
    /\ cmd.printed
    /\ \E i, j, k \in Ids :
          /\ Edge(i, j)
          /\ Edge(i, k)
          /\ {pkgs[i].Name, pkgs[j].Name} \subseteq Range(toremove)
          /\ pkgs[k].Name \notin Range(toremove)
          /\ \E x \in Ids : Edge(x, k) /\ pkgs[x].Name \notin Range(toremove)

\* The packages that the report of pkgtrim <name of i> counts as unique:
\* the unshared members of the closure of i alone.
UniqueSet(i) ==
    LET w == traverse([visited |-> [j \in Ids |-> FALSE], toporder |-> <<>>],
                      BuildDeps(pkgs), i)
        u == computeUnique(pkgs, BuildRdeps(pkgs), w.visited, [j \in Ids |-> FALSE],
                           w.toporder, <<i>>)
    IN {j \in Ids : w.visited[j] /\ ~u.shared[j]}

RECURSIVE SumLines(_)
\* The sum of the costs on the lines of a report.
SumLines(lines) ==
    IF Len(lines) = 0 THEN 0
    ELSE Head(lines).size + SumLines(Tail(lines))

\* C29: on an acyclic catalog the unique sets of two distinct packages that
\* nothing depends on are disjoint, the cost on every line of the report
\* without package arguments is the size of the unique set of its package,
\* and the costs of the report add up to no more than the size of all the
\* installed packages.
C29_NoDoubleCount ==
    (NoArgsDone /\ Acyclic) =>
        /\ \A i, j \in Ids :
              (/\ i # j
               /\ \A x \in Ids : ~Edge(x, i) /\ ~Edge(x, j))
              => UniqueSet(i) \cap UniqueSet(j) = {}
        /\ \A k \in 1 .. Len(report.lines) :
              report.lines[k].size
                 = SumSizes(pkgs, UniqueSet(pkgids(pkgs, report.lines[k].name)))
        /\ SumLines(report.lines) <= SumSizes(pkgs, Ids)

\* A report of two lines whose packages share a dependency, one of them
\* with a dependency of its own: the shared package is on nobody's bill.
C29_Witness ==
    /\ NoArgsDone
    /\ Acyclic
    /\ Len(report.lines) = 2
    /\ \E i, j, k, m \in Ids :
          /\ i # j
          /\ {pkgs[i].Name, pkgs[j].Name} = {report.lines[q].name : q \in 1 .. 2}
          /\ Edge(i, k) /\ Edge(j, k)
          /\ Edge(i, m) /\ ~Edge(j, m)
          /\ m \in UniqueSet(i)
          /\ k \notin UniqueSet(i) \cup UniqueSet(j)
    /\ SumLines(report.lines) < SumSizes(pkgs, Ids)

\* C30: -graph writes no edge twice: whatever the arguments are, no two
\* edge lines of the digraph, from the forward and the backward pass
\* together, are the same.
C30_NoDuplicateEdges ==
    report.digraph =>
        \A k, m \in 1 .. Len(report.edges) :
            report.edges[k] = report.edges[m] => k = m
====
